---- MODULE Spec2Model ----
(***************************************************************************)
(* A model of the rf_rag core: the Neo4j-backed structural graph           *)
(* (graph.py), the effective-scope resolver (resolver.py), the redundancy  *)
(* detector (modules/redundancy.py) and the farthest-point sampler         *)
(* (modules/smoke.py).                                                     *)
(*                                                                         *)
(* Each subsystem has its own specification over the shared variables:     *)
(*   SpecGraph     add_file and the graph queries                          *)
(*   SpecResolver  effective_keywords / imported_files over a file map     *)
(*   SpecStore     detect() and farthest_point_sampling() over a snapshot  *)
(***************************************************************************)
EXTENDS Integers, Sequences, FiniteSets, TLC

VARIABLES
    graph,        \* the Neo4j database: [nodes, edges, props]
    lastAdded,    \* rel_path index of the ResourceFile of the latest add_file
    file_map,     \* ResourceResolver._file_map, in dict insertion order
    scope_cache,  \* ResourceResolver._scope_cache: rel_path -> list object
    heap,         \* the list objects allocated so far: object -> content
    points,       \* the Qdrant collection: [id, vector, payload] in scroll order
    threshold,    \* RedundancyDetector._threshold, in hundredths
    engine,       \* RFRAGEngine: _resolver, _query_engine, _codegen; runs
    inflight,     \* the effective_keywords calls of the threads: position, locals
    ret           \* what the latest operation returned

vars == <<graph, lastAdded, file_map, scope_cache, heap, points, threshold, engine,
          inflight, ret>>

\* Python's None.
None == "<None>"

\* RFRAGEngine.__init__: no resolver, query engine or code generator yet;
\* completed records whether an ingest() has returned
NoEngine == [resolver |-> FALSE, query_engine |-> FALSE, codegen |-> FALSE,
             completed |-> FALSE]

\* the threads that call one resolver
Threads == {1, 2}

\* no list object
NoObject == <<"", 0>>

\* a thread that is not inside effective_keywords
Idle == [pc |-> "idle", rel_path |-> "", hit |-> FALSE, result |-> NoObject, val |-> <<>>]

NoCalls == [t \in Threads |-> Idle]

(***************************************************************************)
(* Strings.  TLC cannot index a string, so every string whose characters   *)
(* the code inspects is listed in StrChars with its characters.            *)
(***************************************************************************)
StrChars ==
       ("" :> <<>>)
    @@ ("a" :> <<"a">>)
    @@ ("b" :> <<"b">>)
    @@ ("d/a" :> <<"d", "/", "a">>)
    @@ ("d/c" :> <<"d", "/", "c">>)
    @@ ("zz" :> <<"z", "z">>)
    @@ ("c" :> <<"c">>)
    @@ ("../a" :> <<".", ".", "/", "a">>)
    @@ ("../b" :> <<".", ".", "/", "b">>)
    @@ ("./d/c" :> <<".", "/", "d", "/", "c">>)
    @@ (" b " :> <<" ", "b", " ">>)
    @@ ("${CURDIR}/c" :> <<"$", "{", "C", "U", "R", "D", "I", "R", "}", "/", "c">>)
    @@ ("../../x" :> <<".", ".", "/", ".", ".", "/", "x">>)
    @@ ("/proj/b" :> <<"/", "p", "r", "o", "j", "/", "b">>)
    @@ ("Base Data Creation" :> <<"B", "a", "s", "e", " ", "D", "a", "t", "a", " ",
                                  "C", "r", "e", "a", "t", "i", "o", "n">>)
    @@ ("Suite SETUP" :> <<"S", "u", "i", "t", "e", " ", "S", "E", "T", "U", "P">>)
    @@ ("Setup" :> <<"S", "e", "t", "u", "p">>)
    @@ ("Other KW" :> <<"O", "t", "h", "e", "r", " ", "K", "W">>)
    @@ ("base data creation" :> <<"b", "a", "s", "e", " ", "d", "a", "t", "a", " ",
                                  "c", "r", "e", "a", "t", "i", "o", "n">>)
    @@ ("setup" :> <<"s", "e", "t", "u", "p">>)
    @@ ("web" :> <<"w", "e", "b">>)
    @@ ("submit_btn" :> <<"s", "u", "b", "m", "i", "t", "_", "b", "t", "n">>)
    @@ ("title" :> <<"t", "i", "t", "l", "e">>)
    @@ ("ghost" :> <<"g", "h", "o", "s", "t">>)
    @@ ("K1" :> <<"K", "1">>)
    @@ ("T1" :> <<"T", "1">>)
    @@ ("uses K1" :> <<"u", "s", "e", "s", " ", "K", "1">>)
    @@ ("${API_KEY}" :> <<"$", "{", "A", "P", "I", "_", "K", "E", "Y", "}">>)
    @@ ("${Password}" :> <<"$", "{", "P", "a", "s", "s", "w", "o", "r", "d", "}">>)
    @@ ("&{TOKENS}" :> <<"&", "{", "T", "O", "K", "E", "N", "S", "}">>)
    @@ ("@{monkeys}" :> <<"@", "{", "m", "o", "n", "k", "e", "y", "s", "}">>)
    @@ ("${my secret}" :> <<"$", "{", "m", "y", " ", "s", "e", "c", "r", "e", "t", "}">>)
    @@ ("${CREDENTIALS}" :> <<"$", "{", "C", "R", "E", "D", "E", "N", "T", "I", "A", "L", "S", "}">>)
    @@ ("${URL}" :> <<"$", "{", "U", "R", "L", "}">>)
    @@ ("@{users}" :> <<"@", "{", "u", "s", "e", "r", "s", "}">>)
    @@ ("password" :> <<"p", "a", "s", "s", "w", "o", "r", "d">>)
    @@ ("secret" :> <<"s", "e", "c", "r", "e", "t">>)
    @@ ("token" :> <<"t", "o", "k", "e", "n">>)
    @@ ("key" :> <<"k", "e", "y">>)
    @@ ("credential" :> <<"c", "r", "e", "d", "e", "n", "t", "i", "a", "l">>)
    @@ ("K2" :> <<"K", "2">>)
    @@ ("T" :> <<"T">>)
    @@ ("Create Mutation" :> <<"C", "r", "e", "a", "t", "e", " ", "M", "u", "t", "a", "t", "i", "o", "n">>)
    @@ ("suite a" :> <<"s", "u", "i", "t", "e", " ", "a">>)
    @@ ("suite c" :> <<"s", "u", "i", "t", "e", " ", "c">>)
    @@ ("second" :> <<"s", "e", "c", "o", "n", "d">>)
    @@ ("first" :> <<"f", "i", "r", "s", "t">>)
    @@ ("tests/a.robot" :> <<"t", "e", "s", "t", "s", "/", "a", ".", "r", "o", "b", "o", "t">>)
    @@ ("SIT/d.robot" :> <<"S", "I", "T", "/", "d", ".", "r", "o", "b", "o", "t">>)
    @@ ("SIT/c.robot" :> <<"S", "I", "T", "/", "c", ".", "r", "o", "b", "o", "t">>)
    @@ ("x" :> <<"x">>)
    @@ ("d/x" :> <<"d", "/", "x">>)
    @@ ("ios, smoke" :> <<"i", "o", "s", ",", " ", "s", "m", "o", "k", "e">>)

Chars(s) == StrChars[s]

\* The characters in code-point order; str comparison only needs the order.
CodePoints ==
    <<" ", "$", "&", ",", ".", "/",
      "1", "@",
      "A", "B", "C", "D", "E", "F", "G", "H", "I", "J", "K", "L", "M",
      "N", "O", "P", "Q", "R", "S", "T", "U", "V", "W", "X", "Y", "Z",
      "\\", "_",
      "a", "b", "c", "d", "e", "f", "g", "h", "i", "j", "k", "l", "m",
      "n", "o", "p", "q", "r", "s", "t", "u", "v", "w", "x", "y", "z",
      "{", "}">>

Ord(c) == CHOOSE i \in 1..Len(CodePoints) : CodePoints[i] = c

\* str.lower() on one character and on a string.
LowerChar(c) ==
    IF Ord(c) >= Ord("A") /\ Ord(c) <= Ord("Z")
    THEN CodePoints[Ord(c) + (Ord("a") - Ord("A"))]
    ELSE c

Lower(s) == [i \in 1..Len(s) |-> LowerChar(s[i])]

\* s[i:] starts with pat
StartsAt(s, i, pat) ==
    /\ i + Len(pat) - 1 <= Len(s)
    /\ \A j \in 1..Len(pat) : s[i + j - 1] = pat[j]

\* Python's `pat in s`
Contains(s, pat) == \E i \in 1..(Len(s) + 1) : StartsAt(s, i, pat)

\* Python's s1 < s2 on str
RECURSIVE StrLess(_, _)
StrLess(s1, s2) ==
    IF s2 = <<>> THEN FALSE
    ELSE IF s1 = <<>> THEN TRUE
    ELSE IF s1[1] # s2[1] THEN Ord(s1[1]) < Ord(s2[1])
    ELSE StrLess(Tail(s1), Tail(s2))

\* str.replace(pat, rep)
RECURSIVE Replace(_, _, _)
Replace(s, pat, rep) ==
    IF s = <<>> THEN <<>>
    ELSE IF StartsAt(s, 1, pat)
         THEN rep \o Replace(SubSeq(s, Len(pat) + 1, Len(s)), pat, rep)
         ELSE <<s[1]>> \o Replace(Tail(s), pat, rep)

\* str.strip()
RECURSIVE LStrip(_)
LStrip(s) == IF s # <<>> /\ s[1] = " " THEN LStrip(Tail(s)) ELSE s

RECURSIVE RStrip(_)
RStrip(s) ==
    IF s # <<>> /\ s[Len(s)] = " " THEN RStrip(SubSeq(s, 1, Len(s) - 1)) ELSE s

Strip(s) == RStrip(LStrip(s))

\* str.split(sep) for a one-character separator
RECURSIVE SplitFrom(_, _, _)
SplitFrom(s, sep, cur) ==
    IF s = <<>> THEN <<cur>>
    ELSE IF s[1] = sep THEN <<cur>> \o SplitFrom(Tail(s), sep, <<>>)
    ELSE SplitFrom(Tail(s), sep, Append(cur, s[1]))

Split(s, sep) == SplitFrom(s, sep, <<>>)

\* sep.join(parts)
RECURSIVE Join(_, _)
Join(parts, sep) ==
    IF parts = <<>> THEN <<>>
    ELSE IF Len(parts) = 1 THEN parts[1]
    ELSE parts[1] \o <<sep>> \o Join(Tail(parts), sep)

\* A left fold over a sequence: the model of a Python for-loop that threads
\* one accumulator through the iterations.
RECURSIVE FoldSeq(_, _, _)
FoldSeq(Op(_, _), acc, seq) ==
    IF seq = <<>> THEN acc ELSE FoldSeq(Op, Op(acc, seq[1]), Tail(seq))

(***************************************************************************)
(* The domain records of models.py.                                        *)
(***************************************************************************)
KeywordDef(name, fqn, doc, tags, called, line) ==
    [name |-> name, fqn |-> fqn, documentation |-> doc, tags |-> tags,
     called_keywords |-> called, line_number |-> line]

TestCaseDef(name, fqn, doc, tags, called, line) ==
    [name |-> name, fqn |-> fqn, documentation |-> doc, tags |-> tags,
     called_keywords |-> called, line_number |-> line]

VariableDef(name, var_type) == [name |-> name, var_type |-> var_type]

LocatorMapping(element, ios, android) ==
    [element_name |-> element, ios_locator |-> ios, android_locator |-> android]

ResourceFile(path, role, platform, doc, imports, kws, tcs, vs, lms) ==
    [rel_path |-> path, role |-> role, platform |-> platform,
     documentation |-> doc, imports |-> imports, keywords |-> kws,
     test_cases |-> tcs, variables |-> vs, locator_mappings |-> lms]

(***************************************************************************)
(* graph.py: the Neo4j database and the Cypher statements of _add_file_tx. *)
(* A node is <<label, uid>>: MERGE (n:L {uid: u}) matches on the label and *)
(* the uid, so the database holds at most one node per label and uid, and  *)
(* the uniqueness constraints of _ensure_constraints are per label.  A     *)
(* node created by the label-less MERGE (b {uid: u}) has the label NoLabel.*)
(* An edge is <<source node, target node, type>>.                          *)
(***************************************************************************)
NoLabel == ""

EmptyGraph == [nodes |-> {}, edges |-> {}, props |-> <<>>]

\* MERGE (n:label {uid: uid})
MergeNode(g, label, uid) ==
    IF <<label, uid>> \in g.nodes THEN g
    ELSE [nodes |-> g.nodes \cup {<<label, uid>>},
          edges |-> g.edges,
          props |-> g.props @@ (<<label, uid>> :> [uid |-> uid])]

\* MATCH (n {uid: uid}): every node with that uid, whatever its label
MatchUid(g, uid) == {n \in g.nodes : n[2] = uid}

\* MERGE (n {uid: uid}): binds every match; creates a label-less node if none
MergeUid(g, uid) == IF MatchUid(g, uid) # {} THEN g ELSE MergeNode(g, NoLabel, uid)

\* SET n.k = v, ... on one node
SetProps(g, n, rec) == [g EXCEPT !.props[n] = rec @@ @]

\* MERGE (a)-[:type]->(b) for bound a and b
MergeEdge(g, a, b, type) == [g EXCEPT !.edges = @ \cup {<<a, b, type>>}]

\* MATCH (a:la {uid: src}) MATCH (b:lb {uid: tgt}) MERGE (a)-[:type]->(b)
MatchMergeEdge(g, la, src, lb, tgt, type) ==
    IF <<la, src>> \in g.nodes /\ <<lb, tgt>> \in g.nodes
    THEN MergeEdge(g, <<la, src>>, <<lb, tgt>>, type)
    ELSE g

\* MERGE (a:File {uid: src}) MERGE (b:File {uid: tgt}) MERGE (a)-[:IMPORTS]->(b)
ImportsStmt(g, src, tgt) ==
    MergeEdge(MergeNode(MergeNode(g, "File", src), "File", tgt),
              <<"File", src>>, <<"File", tgt>>, "IMPORTS")

\* MERGE (a:label {uid: src}) MERGE (b {uid: tgt}) MERGE (a)-[:CALLS]->(b):
\* the last MERGE runs once per row, one row per node the second MERGE bound.
CallsStmt(g, label, src, tgt) ==
    LET g1 == MergeNode(g, label, src)
        g2 == MergeUid(g1, tgt)
    IN  [g2 EXCEPT !.edges =
            @ \cup {<<<<label, src>>, b, "CALLS">> : b \in MatchUid(g2, tgt)}]

\* MERGE (t:Tag {uid: tag_node}) SET ...; MATCH (n:label) MATCH (t:Tag) MERGE TAGGED
TagStmts(g, label, src, tag) ==
    LET tag_node == "tag:" \o tag
        g1 == SetProps(MergeNode(g, "Tag", tag_node), <<"Tag", tag_node>>,
                       [node_type |-> "tag"])
    IN  MatchMergeEdge(g1, label, src, "Tag", tag_node, "TAGGED")

\* the body of `for kw in rf.keywords`
AddKeyword(g, rf, kw) ==
    LET kw_node == kw.fqn
        g1 == SetProps(MergeNode(g, "Keyword", kw_node), <<"Keyword", kw_node>>,
                       [node_type |-> "keyword", doc |-> kw.documentation,
                        source |-> rf.rel_path, line |-> kw.line_number])
        g2 == MatchMergeEdge(g1, "File", rf.rel_path, "Keyword", kw_node, "DEFINES")
        g3 == FoldSeq(LAMBDA acc, called : CallsStmt(acc, "Keyword", kw_node, called),
                      g2, kw.called_keywords)
    IN  FoldSeq(LAMBDA acc, tag : TagStmts(acc, "Keyword", kw_node, tag), g3, kw.tags)

\* the body of `for tc in rf.test_cases`
AddTestCase(g, rf, tc) ==
    LET tc_node == tc.fqn
        g1 == SetProps(MergeNode(g, "TestCase", tc_node), <<"TestCase", tc_node>>,
                       [node_type |-> "test_case", doc |-> tc.documentation,
                        source |-> rf.rel_path, line |-> tc.line_number])
        g2 == MatchMergeEdge(g1, "File", rf.rel_path, "TestCase", tc_node, "TESTS")
        g3 == FoldSeq(LAMBDA acc, called : CallsStmt(acc, "TestCase", tc_node, called),
                      g2, tc.called_keywords)
    IN  FoldSeq(LAMBDA acc, tag : TagStmts(acc, "TestCase", tc_node, tag), g3, tc.tags)

\* the body of `for v in rf.variables`
AddVariable(g, rf, v) ==
    LET var_node == "var:" \o v.name
        g1 == SetProps(MergeNode(g, "Variable", var_node), <<"Variable", var_node>>,
                       [node_type |-> "variable", source |-> rf.rel_path,
                        var_type |-> v.var_type])
    IN  MatchMergeEdge(g1, "File", rf.rel_path, "Variable", var_node, "DEFINES")

\* `lm.ios_locator or ""`
OrEmpty(x) == IF x = None \/ x = "" THEN "" ELSE x

\* the body of `for lm in rf.locator_mappings`
AddLocator(g, rf, lm) ==
    LET el_node == "element:" \o lm.element_name
        g1 == SetProps(MergeNode(g, "LocatorElement", el_node),
                       <<"LocatorElement", el_node>>,
                       [node_type |-> "locator_element",
                        ios |-> OrEmpty(lm.ios_locator),
                        android |-> OrEmpty(lm.android_locator)])
    IN  MatchMergeEdge(g1, "File", rf.rel_path, "LocatorElement", el_node,
                       "MAPS_ELEMENT")

\* RFGraph._add_file_tx: one write transaction
AddFileTx(g, rf) ==
    LET fnode == rf.rel_path
        g1 == SetProps(MergeNode(g, "File", fnode), <<"File", fnode>>,
                       [node_type |-> "file", role |-> rf.role,
                        platform |-> rf.platform, doc |-> rf.documentation])
        g2 == FoldSeq(LAMBDA acc, imp : ImportsStmt(acc, fnode, imp), g1, rf.imports)
        g3 == FoldSeq(LAMBDA acc, kw : AddKeyword(acc, rf, kw), g2, rf.keywords)
        g4 == FoldSeq(LAMBDA acc, tc : AddTestCase(acc, rf, tc), g3, rf.test_cases)
        g5 == FoldSeq(LAMBDA acc, v : AddVariable(acc, rf, v), g4, rf.variables)
    IN  FoldSeq(LAMBDA acc, lm : AddLocator(acc, rf, lm), g5, rf.locator_mappings)

\* a query that reports every element with a locator
AnyLocator(ios, android) == ios # "" \/ android # ""

\* WHERE (e.ios = '' AND e.android <> '') OR (e.ios <> '' AND e.android = '')
MismatchWhere(ios, android) ==
    \/ (ios = "" /\ android # "")
    \/ (ios # "" /\ android = "")

\* str.removeprefix(prefix), on the strings listed in StrChars
RemovePrefix(s, prefix) ==
    IF \E r \in DOMAIN StrChars : prefix \o r = s
    THEN CHOOSE r \in DOMAIN StrChars : prefix \o r = s
    ELSE s

\* `r["ios"] or "MISSING"`
OrMissing(x) == IF x = "" THEN "MISSING" ELSE x

\* RFGraph.mismatched_po_elements: the dicts returned; Cypher fixes no order
\* among them, so they are kept as a set.
MismatchedPoRecords(g) ==
    {[element |-> RemovePrefix(e[2], "element:"),
      ios |-> OrMissing(g.props[e].ios),
      android |-> OrMissing(g.props[e].android)] :
        e \in {n \in g.nodes : /\ n[1] = "LocatorElement"
                                /\ MismatchWhere(g.props[n].ios, g.props[n].android)}}

\* RFGraph.node_data: properties of records[0], or {} when nothing matches.
\* Cypher fixes no order among several matching nodes.
EmptyDict == <<>>

NodeDataResults(g, uid) ==
    IF MatchUid(g, uid) = {} THEN {EmptyDict}
    ELSE {g.props[n] : n \in MatchUid(g, uid)}

(***************************************************************************)
(* The ResourceFiles handed to add_file.                                   *)
(***************************************************************************)
GraphFiles == <<
    \* a test suite whose keyword K1 calls K2 by its qualified name before
    \* K2 is defined further down in the same file
    ResourceFile("tests/a.robot", "ATOMIC_TESTS", "common", "suite a",
        <<"../res/api/b.resource">>,
        <<KeywordDef("K1", "a.K1", "", <<"web">>, <<"a.K2", "Log">>, 3),
          KeywordDef("K2", "a.K2", "second", <<>>, <<>>, 9)>>,
        <<TestCaseDef("T1", "a.T1", "", <<"web">>, <<"K1">>, 20)>>,
        <<>>, <<>>),
    \* an API resource with a variable and a locator only iOS defines
    ResourceFile("res/api/b.resource", "API", "be", "",
        <<>>,
        <<KeywordDef("Create Mutation", "b.Create Mutation", "", <<>>, <<"Log">>, 5)>>,
        <<>>,
        <<VariableDef("${URL}", "scalar")>>,
        <<LocatorMapping("submit_btn", "//ios", None),
          LocatorMapping("title", "//ios-t", "//android-t")>>),
    \* an end-to-end suite; same variable and locator element as b.resource
    ResourceFile("SIT/c.robot", "E2E_TESTS", "web", "suite c",
        <<"../res/api/b.resource">>,
        <<>>,
        <<TestCaseDef("T", "c.T", "", <<"web">>, <<"Create Mutation", "a.K2">>, 4)>>,
        <<VariableDef("${URL}", "list")>>,
        <<LocatorMapping("submit_btn", None, "//android")>>),
    \* another file with stem "a": its keyword has the FQN a.K2 as well; it
    \* maps submit_btn on both platforms and an element on neither
    ResourceFile("lib/a.resource", "KNOWLEDGE_BASE", "common", "",
        <<>>,
        <<KeywordDef("K2", "a.K2", "first", <<>>, <<>>, 1)>>,
        <<>>, <<>>,
        <<LocatorMapping("submit_btn", "//ios", "//android"),
          LocatorMapping("ghost", None, None)>>)
>>

\* the uids node_data is asked about: known and unknown ones
QueryUids == {"a.K2", "tests/a.robot", "var:${URL}", "nonexistent"}

(***************************************************************************)
(* SpecGraph: add_file and node_data on one RFGraph.                       *)
(***************************************************************************)
NoCall == [op |-> "none"]

InitGraph ==
    /\ graph = EmptyGraph
    /\ lastAdded = 0
    /\ file_map = <<>>
    /\ scope_cache = <<>>
    /\ heap = <<>>
    /\ points = <<>>
    /\ threshold = 0
    /\ engine = NoEngine
    /\ inflight = NoCalls
    /\ ret = NoCall

\* RFGraph.add_file(rf)
AddFile(i) ==
    /\ graph' = AddFileTx(graph, GraphFiles[i])
    /\ lastAdded' = i
    /\ ret' = [op |-> "add_file", arg |-> i, val |-> None]
    /\ UNCHANGED <<file_map, scope_cache, heap, points, threshold, engine, inflight>>

\* RFGraph.node_data(node)
NodeData(uid) ==
    /\ \E v \in NodeDataResults(graph, uid) :
            ret' = [op |-> "node_data", arg |-> uid, val |-> v]
    /\ UNCHANGED <<graph, lastAdded, file_map, scope_cache, heap, points, threshold, engine, inflight>>

\* RFGraph.mismatched_po_elements()
MismatchedPoElements ==
    /\ ret' = [op |-> "mismatched_po_elements", val |-> MismatchedPoRecords(graph)]
    /\ UNCHANGED <<graph, lastAdded, file_map, scope_cache, heap, points, threshold, engine, inflight>>

NextGraph ==
    \/ \E i \in 1..Len(GraphFiles) : AddFile(i)
    \/ \E uid \in QueryUids : NodeData(uid)
    \/ MismatchedPoElements

SpecGraph == InitGraph /\ [][NextGraph]_vars

\* how many nodes carry the uid, and how many edges the (source, target, type)
NodeCount(g, uid) == Cardinality(MatchUid(g, uid))

EdgeCount(g, src, tgt, type) ==
    Cardinality({e \in g.edges : e[1][2] = src /\ e[2][2] = tgt /\ e[3] = type})

EdgeKeys(g) == {<<e[1][2], e[2][2], e[3]>> : e \in g.edges}

\* C1: add_file(rf) called again right after add_file(rf) leaves the nodes (by
\* uid) and the edges (by (source, target, edge_type)) as they were: the same
\* uids and tuples, and no further node or edge for any of them.
C1_AddFileIdempotent ==
    [][(lastAdded # 0 /\ lastAdded' = lastAdded) =>
            /\ \A n \in graph.nodes \cup graph'.nodes :
                    NodeCount(graph', n[2]) = NodeCount(graph, n[2])
            /\ \A k \in EdgeKeys(graph) \cup EdgeKeys(graph') :
                    EdgeCount(graph', k[1], k[2], k[3]) = EdgeCount(graph, k[1], k[2], k[3])
       ]_vars

\* the mapping of element that add_file(rf) writes last
LastMapping(rf, element) ==
    rf.locator_mappings[CHOOSE i \in 1..Len(rf.locator_mappings) :
        /\ rf.locator_mappings[i].element_name = element
        /\ \A j \in (i + 1)..Len(rf.locator_mappings) :
               rf.locator_mappings[j].element_name # element]

MappedElements(rf) ==
    {rf.locator_mappings[i].element_name : i \in 1..Len(rf.locator_mappings)}

\* what is reported for a mapping with exactly one locator
MismatchReport(lm) ==
    [element |-> lm.element_name,
     ios |-> IF lm.ios_locator = None THEN "MISSING" ELSE lm.ios_locator,
     android |-> IF lm.android_locator = None THEN "MISSING" ELSE lm.android_locator]

\* C12: after add_file(rf), mismatched_po_elements() reports an element that
\* rf maps if and only if exactly one of the two locators of its mapping is
\* present (not None), as the present value and "MISSING" for the other
\* side, and what is reported for the elements rf does not map is as before;
\* so an element is reported exactly when the mapping ingested for it last
\* has one locator.
C12_MismatchIffExactlyOne ==
    [][ret'.op = "add_file" =>
           LET rf == GraphFiles[ret'.arg]
               before == MismatchedPoRecords(graph)
               after == MismatchedPoRecords(graph')
           IN  /\ \A el \in MappedElements(rf) :
                      LET lm == LastMapping(rf, el)
                      IN  {r \in after : r.element = el}
                          = IF (lm.ios_locator = None) # (lm.android_locator = None)
                            THEN {MismatchReport(lm)} ELSE {}
               /\ {r \in after : r.element \notin MappedElements(rf)}
                      = {r \in before : r.element \notin MappedElements(rf)}
      ]_vars

\* mismatched_po_elements() reported an element with one locator while the
\* graph also holds an element with both locators and one with neither
C12_Witness ==
    /\ ret.op = "mismatched_po_elements"
    /\ \E r \in ret.val : r.android = "MISSING" \/ r.ios = "MISSING"
    /\ \E n \in graph.nodes :
           n[1] = "LocatorElement" /\ graph.props[n].ios # "" /\ graph.props[n].android # ""
    /\ \E n \in graph.nodes :
           n[1] = "LocatorElement" /\ graph.props[n].ios = "" /\ graph.props[n].android = ""

(***************************************************************************)
(* resolver.py.  The file map is a dict: here the sequence of its values   *)
(* in insertion order, one ResourceFile per rel_path.  A path is handled   *)
(* as pathlib handles it: split into parts, joined, ".." resolved          *)
(* (the model has no symbolic links).                                      *)
(***************************************************************************)
FmKeys(fm) == {fm[i].rel_path : i \in 1..Len(fm)}

\* self._file_map.get(rel_path): the value when the key is present ...
FmGet(fm, key) == fm[CHOOSE i \in 1..Len(fm) : fm[i].rel_path = key]

\* ... and whether it is None
FmGetIsNone(fm, key) == key \notin FmKeys(fm)

\* self._project_root: the absolute path /proj, as parts
ProjectRoot == <<<<"p", "r", "o", "j">>>>

\* PurePath parsing: the parts of a path, without empty and "." parts
PathParts(s) == SelectSeq(Split(s, "/"), LAMBDA c : c # <<>> /\ c # <<".">>)

IsAbsolute(s) == s # <<>> /\ s[1] = "/"

\* Path.parent
Parent(parts) == SubSeq(parts, 1, Len(parts) - 1)

\* dir / path: an absolute right operand replaces the left one
JoinPath(dirparts, s) == IF IsAbsolute(s) THEN PathParts(s) ELSE dirparts \o PathParts(s)

\* Path.resolve() on an absolute path: ".." drops the part before it
ResolveDots(parts) ==
    FoldSeq(LAMBDA acc, c : IF c = <<".", ".">> THEN Parent(acc) ELSE Append(acc, c),
            <<>>, parts)

\* candidate.relative_to(root): ok is FALSE where Python raises ValueError
RelativeTo(cand, root) ==
    IF Len(cand) >= Len(root) /\ SubSeq(cand, 1, Len(root)) = root
    THEN [ok |-> TRUE, parts |-> SubSeq(cand, Len(root) + 1, Len(cand))]
    ELSE [ok |-> FALSE, parts |-> <<>>]

\* str() of a relative path
PathStr(parts) == IF parts = <<>> THEN <<".">> ELSE Join(parts, "/")

CurdirDollar == <<"$", "{", "C", "U", "R", "D", "I", "R", "}">>
CurdirPercent == <<"%", "{", "C", "U", "R", "D", "I", "R", "}">>

\* a resolution that falls back on the first key of the file map
ResolveLoosely(fm, importing_file, import_path) ==
    IF fm = <<>> THEN None ELSE fm[1].rel_path

\* ResourceResolver._resolve_import: a key of the file map, or None
ResolveImport(fm, importing_file, import_path) ==
    LET imp == Strip(Replace(Replace(Chars(import_path), CurdirDollar, <<".">>),
                             CurdirPercent, <<".">>))
        importing_dir == Parent(ProjectRoot \o PathParts(Chars(importing_file)))
        candidate == ResolveDots(JoinPath(importing_dir, imp))
        rel == RelativeTo(candidate, ProjectRoot)
        resolved_rel == Replace(PathStr(rel.parts), <<"\\">>, <<"/">>)
        exact == {k \in FmKeys(fm) : Chars(k) = resolved_rel}
        native == {i \in 1..Len(fm) :
                      Replace(Chars(fm[i].rel_path), <<"\\">>, <<"/">>) = resolved_rel}
    IN  IF ~rel.ok THEN None
        ELSE IF exact # {} THEN CHOOSE k \in exact : TRUE
        ELSE IF native # {}
             THEN fm[CHOOSE i \in native : \A j \in native : i <= j].rel_path
        ELSE None

\* a walk that follows no import
NeverTruthy(x) == FALSE

\* `if resolved:`
Truthy(x) == x # None /\ x # ""

\* The most _walk (or _walk_files) calls one query can make when no file is
\* entered twice: the first call and one call per import of each file.
RECURSIVE TotalImports(_)
TotalImports(fm) ==
    IF fm = <<>> THEN 0 ELSE Len(fm[1].imports) + TotalImports(Tail(fm))

CallBudget(fm) == 1 + TotalImports(fm)

\* a walk that forgets which files it has entered
NeverSeen(rel_path, visited) == FALSE

\* `if rel_path in visited: return` of _walk
WalkSeen(rel_path, visited) == rel_path \in visited

\* a walk that appends the keywords of a file after those of its imports
RECURSIVE PostOrderWalk(_, _, _)
PostOrderWalk(fm, rel_path, st) ==
    IF st.calls > CallBudget(fm) THEN [st EXCEPT !.overrun = TRUE]
    ELSE IF WalkSeen(rel_path, st.visited) THEN [st EXCEPT !.calls = @ + 1]
    ELSE LET rf == FmGet(fm, rel_path)
             st1 == [st EXCEPT !.visited = @ \cup {rel_path}, !.calls = @ + 1]
             st2 == FoldSeq(LAMBDA s, imp :
                              LET resolved == ResolveImport(fm, rel_path, imp)
                              IN  IF Truthy(resolved)
                                  THEN PostOrderWalk(fm, resolved, s) ELSE s,
                            st1, rf.imports)
         IN  IF FmGetIsNone(fm, rel_path) THEN st1
             ELSE [st2 EXCEPT !.acc = @ \o rf.keywords]

\* ResourceResolver._walk.  st is [visited, acc, calls, overrun]: the two
\* mutable arguments, the number of calls made so far, and whether the call
\* budget was exceeded, where the evaluation is cut off.
RECURSIVE Walk(_, _, _)
Walk(fm, rel_path, st) ==
    IF st.calls > CallBudget(fm) THEN [st EXCEPT !.overrun = TRUE]
    ELSE IF WalkSeen(rel_path, st.visited) THEN [st EXCEPT !.calls = @ + 1]
    ELSE LET rf == FmGet(fm, rel_path)
             st1 == [st EXCEPT !.visited = @ \cup {rel_path}, !.calls = @ + 1]
         IN  IF FmGetIsNone(fm, rel_path) THEN st1
             ELSE FoldSeq(LAMBDA s, imp :
                              LET resolved == ResolveImport(fm, rel_path, imp)
                              IN  IF Truthy(resolved) THEN Walk(fm, resolved, s) ELSE s,
                          [st1 EXCEPT !.acc = @ \o rf.keywords],
                          rf.imports)

\* `if rel_path in visited: return` of _walk_files
WalkFilesSeen(rel_path, visited) == rel_path \in visited

\* a walk over the file and the files it imports itself, and no further
ShallowWalkFiles(fm, rel_path, st) ==
    LET rf == FmGet(fm, rel_path)
        st1 == [st EXCEPT !.visited = @ \cup {rel_path}, !.calls = @ + 1]
    IN  IF FmGetIsNone(fm, rel_path) THEN st1
        ELSE FoldSeq(LAMBDA s, imp :
                         LET resolved == ResolveImport(fm, rel_path, imp)
                         IN  IF Truthy(resolved)
                             THEN [s EXCEPT !.visited = @ \cup {resolved}] ELSE s,
                     st1, rf.imports)

\* ResourceResolver._walk_files
RECURSIVE WalkFiles(_, _, _)
WalkFiles(fm, rel_path, st) ==
    IF st.calls > CallBudget(fm) THEN [st EXCEPT !.overrun = TRUE]
    ELSE IF WalkFilesSeen(rel_path, st.visited) THEN [st EXCEPT !.calls = @ + 1]
    ELSE LET rf == FmGet(fm, rel_path)
             st1 == [st EXCEPT !.visited = @ \cup {rel_path}, !.calls = @ + 1]
         IN  IF FmGetIsNone(fm, rel_path) THEN st1
             ELSE FoldSeq(LAMBDA s, imp :
                              LET resolved == ResolveImport(fm, rel_path, imp)
                              IN  IF Truthy(resolved) THEN WalkFiles(fm, resolved, s) ELSE s,
                          st1,
                          rf.imports)

WalkStart == [visited |-> {}, acc |-> <<>>, calls |-> 0, overrun |-> FALSE]

\* sorted(visited) on a set of str
RECURSIVE Sorted(_)
Sorted(S) ==
    IF S = {} THEN <<>>
    ELSE LET m == CHOOSE x \in S : \A y \in S \ {x} : StrLess(Chars(x), Chars(y))
         IN  <<m>> \o Sorted(S \ {m})

\* a resolver that never finds a scope in its cache
NeverCached(cache, rel_path) == FALSE

\* `if rel_path in self._scope_cache`
CacheHit(cache, rel_path) == rel_path \in DOMAIN cache

\* A list object is named <<rel_path, n>>: the n-th list this resolver
\* allocated in effective_keywords(rel_path).
Allocated(h, rel_path) == Cardinality({o \in DOMAIN h : o[1] = rel_path})

(***************************************************************************)
(* The file maps the resolver is built over: for each path either no file  *)
(* or one of its versions, in crawl order.                                 *)
(***************************************************************************)
Kw(fqn) == KeywordDef(fqn, fqn, "", <<>>, <<>>, 1)

Rf(path, imports, kws) ==
    ResourceFile(path, "UNKNOWN", "common", "", imports, kws, <<>>, <<>>, <<>>)

FileVersions == <<
    \* a
    {Rf("a", <<"b", "./d/c">>, <<Kw("a.K1"), Kw("a.K2")>>),
     Rf("a", <<"a", "zz", " b ">>, <<Kw("a.K1")>>)},
    \* b
    {Rf("b", <<"a">>, <<Kw("b.K1")>>),
     Rf("b", <<"../../x", "d/a">>, <<Kw("b.K1")>>)},
    \* d/a: same stem as a, so its keyword has the FQN a.K1 too
    {Rf("d/a", <<"../b", "c">>, <<Kw("a.K1")>>)},
    \* d/c
    {Rf("d/c", <<"${CURDIR}/c", "../a">>, <<Kw("c.K1")>>),
     Rf("d/c", <<"/proj/b">>, <<Kw("c.K1")>>)}
>>

RECURSIVE FileMapsFrom(_)
FileMapsFrom(i) ==
    IF i > Len(FileVersions) THEN {<<>>}
    ELSE LET rest == FileMapsFrom(i + 1)
         IN  rest \cup {<<rf>> \o fm : rf \in FileVersions[i], fm \in rest}

FileMaps == FileMapsFrom(1)

\* the paths the resolver is asked about; "zz" is never a file-map key
QueryPaths == {"a", "b", "d/a", "zz"}

\* the most lists one resolver allocates for one path in the model
MaxAlloc == 2

(***************************************************************************)
(* SpecResolver: one ResourceResolver at a time; engine.ingest builds a    *)
(* new one over the file map of the run.                                   *)
(***************************************************************************)
InitResolver ==
    /\ graph = EmptyGraph
    /\ lastAdded = 0
    /\ file_map = <<>>
    /\ scope_cache = <<>>
    /\ heap = <<>>
    /\ points = <<>>
    /\ threshold = 0
    /\ engine = NoEngine
    /\ inflight = NoCalls
    /\ ret = NoCall

\* ResourceResolver.__init__(file_map, project_root)
NewResolver(fm) ==
    /\ file_map' = fm
    /\ scope_cache' = <<>>
    /\ heap' = <<>>
    /\ ret' = [op |-> "new_resolver"]
    /\ UNCHANGED <<graph, lastAdded, points, threshold, engine, inflight>>

\* ResourceResolver.effective_keywords(rel_path)
EffectiveKeywords(p) ==
    /\ IF CacheHit(scope_cache, p)
       THEN /\ ret' = [op |-> "effective_keywords", arg |-> p, cached |-> TRUE,
                       obj |-> scope_cache[p], val |-> heap[scope_cache[p]],
                       overrun |-> FALSE]
            /\ UNCHANGED <<scope_cache, heap>>
       ELSE LET st == Walk(file_map, p, WalkStart)
                result == <<p, Allocated(heap, p) + 1>>
            IN  /\ Allocated(heap, p) < MaxAlloc
                /\ heap' = (result :> st.acc) @@ heap
                /\ scope_cache' = (p :> result) @@ scope_cache
                /\ ret' = [op |-> "effective_keywords", arg |-> p, cached |-> FALSE,
                           obj |-> result, val |-> st.acc, overrun |-> st.overrun]
    /\ UNCHANGED <<graph, lastAdded, file_map, points, threshold, engine, inflight>>

\* ResourceResolver.imported_files(rel_path)
ImportedFiles(p) ==
    /\ LET st == WalkFiles(file_map, p, WalkStart)
       IN  ret' = [op |-> "imported_files", arg |-> p, val |-> Sorted(st.visited),
                   overrun |-> st.overrun]
    /\ UNCHANGED <<graph, lastAdded, file_map, scope_cache, heap, points, threshold, engine, inflight>>

NextResolver ==
    \/ \E fm \in FileMaps : NewResolver(fm)
    \/ \E p \in QueryPaths : EffectiveKeywords(p)
    \/ \E p \in QueryPaths : ImportedFiles(p)

SpecResolver == InitResolver /\ [][NextResolver]_vars


(***************************************************************************)
(* The resolved import relation of a file map, and what is reachable in    *)
(* it, computed as a least fixed point and independently of the walks.     *)
(***************************************************************************)
ResolvedImports(fm) ==
    {e \in FmKeys(fm) \X FmKeys(fm) :
        \E i \in 1..Len(FmGet(fm, e[1]).imports) :
            ResolveImport(fm, e[1], FmGet(fm, e[1]).imports[i]) = e[2]}

RECURSIVE ReachFrom(_, _)
ReachFrom(R, S) ==
    LET T == S \cup {e[2] : e \in {d \in R : d[1] \in S}}
    IN  IF T = S THEN S ELSE ReachFrom(R, T)

\* the files reachable from p through one or more resolvable imports
ReachPlus(fm, p) ==
    LET R == ResolvedImports(fm)
    IN  ReachFrom(R, {e[2] : e \in {d \in R : d[1] = p}})

\* the files on an import cycle through p
OnCycleWith(fm, p) == {q \in ReachPlus(fm, p) : p \in ReachPlus(fm, q)}

Elems(seq) == {seq[i] : i \in 1..Len(seq)}

\* C2: a call of effective_keywords(p) on a resolver that already holds a
\* scope for p returns that very list object with the content it had, every
\* call leaves the object it returns in the cache, and as long as no new
\* resolver is built no cached entry is replaced and no list changes content.
C2_SameCachedObject ==
    [][/\ (ret'.op = "effective_keywords" /\ ret'.arg \in DOMAIN scope_cache) =>
              /\ ret'.obj = scope_cache[ret'.arg]
              /\ ret'.val = heap[scope_cache[ret'.arg]]
       /\ ret'.op = "effective_keywords" =>
              /\ ret'.arg \in DOMAIN scope_cache'
              /\ scope_cache'[ret'.arg] = ret'.obj
              /\ heap'[ret'.obj] = ret'.val
       /\ ret'.op # "new_resolver" =>
              /\ \A q \in DOMAIN scope_cache :
                    q \in DOMAIN scope_cache' /\ scope_cache'[q] = scope_cache[q]
              /\ \A o \in DOMAIN heap : o \in DOMAIN heap' /\ heap'[o] = heap[o]
      ]_vars

\* a second call returned the cached, non-empty list
C2_Witness ==
    /\ ret.op = "effective_keywords"
    /\ ret.cached
    /\ ret.val # <<>>

\* C3: effective_keywords and imported_files finish within the call budget
\* whatever cycles the imports form, and the list effective_keywords(a)
\* returns contains every keyword of every file on an import cycle through a.
C3_CyclesTerminate ==
    /\ ret.op \in {"effective_keywords", "imported_files"} => ~ret.overrun
    /\ ret.op = "effective_keywords" =>
           \A q \in OnCycleWith(file_map, ret.arg) :
               Elems(FmGet(file_map, q).keywords) \subseteq Elems(ret.val)

\* effective_keywords walked a cycle of two files, and a self-import
C3_Witness ==
    /\ ret.op = "effective_keywords"
    /\ ~ret.cached
    /\ ret.arg = "a"
    /\ {"a", "b"} \subseteq OnCycleWith(file_map, "a")

\* C4: imported_files(p) is strictly ascending in code-point order, hence
\* without duplicates, and its elements are p and the files reachable from p
\* through one or more resolvable imports.
C4_ImportedFilesClosure ==
    ret.op = "imported_files" =>
        /\ \A i \in 1..(Len(ret.val) - 1) :
               StrLess(Chars(ret.val[i]), Chars(ret.val[i + 1]))
        /\ Elems(ret.val) = {ret.arg} \cup ReachPlus(file_map, ret.arg)

\* imported_files returned three files or more, found through chained imports
C4_Witness ==
    /\ ret.op = "imported_files"
    /\ Len(ret.val) >= 3
    /\ \E q \in ReachPlus(file_map, ret.arg) :
           <<ret.arg, q>> \notin ResolvedImports(file_map)

\* C5: a query about an identity nothing is known of returns an empty
\* result: effective_keywords and imported_files of a path that is no key of
\* the file map, node_data of a uid without node, get_metadata of an id
\* without point.
C5_UnknownIsEmpty ==
    /\ (ret.op \in {"effective_keywords", "imported_files"}
            /\ FmGetIsNone(file_map, ret.arg)) =>
           ret.val = <<>> /\ ~ret.overrun
    /\ (ret.op = "node_data" /\ MatchUid(graph, ret.arg) = {}) =>
           ret.val = EmptyDict
    /\ (ret.op = "get_metadata" /\ \A i \in 1..Len(points) : points[i].id # ret.arg) =>
           ret.val = EmptyDict

(***************************************************************************)
(* The vector store.  A point is [id, vector, payload]; `points` lists the *)
(* collection in the order a scroll returns it.  A similarity is kept as   *)
(* the exact pair [d, n] that stands for d / sqrt(n), so that comparisons  *)
(* are integer arithmetic; float32 rounding is not modelled, and the       *)
(* vectors and thresholds below are chosen so that no comparison is a      *)
(* near-tie that rounding could turn.                                      *)
(***************************************************************************)
Abs(x) == IF x < 0 THEN -x ELSE x

Dot(a, b) == FoldSeq(LAMBDA acc, i : acc + a[i] * b[i], 0, [i \in 1..Len(a) |-> i])

NormSq(a) == Dot(a, a)

\* _cosine_similarity(a, b): 0.0 when a norm is zero
CosineSimilarity(a, b) ==
    IF NormSq(a) * NormSq(b) = 0 THEN [d |-> 0, n |-> 1]
    ELSE [d |-> Dot(a, b), n |-> NormSq(a) * NormSq(b)]

\* c1 <= c2 on similarities
SimLeq(c1, c2) == c1.d * Abs(c1.d) * c2.n <= c2.d * Abs(c2.d) * c1.n

\* `sim >= self._threshold`, the threshold given in hundredths
AtLeast(sim, t) == sim.d * Abs(sim.d) * 10000 >= t * Abs(t) * sim.n

\* _doc_id(text): the id is named by the text it is the digest of
DocId(text) == text

\* the payload index_file stores with a keyword or test case
Payload(type, fqn, name, source, role, tags) ==
    [type |-> type, fqn |-> fqn, name |-> name, source |-> source,
     role |-> role, platform |-> "common", tags |-> tags]

KeywordPoint(fqn, name, source, role, vec) ==
    [id |-> DocId("kw:" \o fqn), vector |-> vec,
     payload |-> Payload("keyword", fqn, name, source, role, "")]

TestCasePoint(fqn, name, source, role, tags, vec) ==
    [id |-> DocId("tc:" \o fqn), vector |-> vec,
     payload |-> Payload("test_case", fqn, name, source, role, tags)]

\* VectorStore.get_all_embeddings(where={"type": type}): id and vector of the
\* points of that type, in scroll order
GetAllEmbeddings(pts, type) == SelectSeq(pts, LAMBDA pt : pt.payload.type = type)

\* embeddings[doc_id]
VectorOf(embeddings, doc_id) ==
    embeddings[CHOOSE i \in 1..Len(embeddings) : embeddings[i].id = doc_id].vector

\* VectorStore.get_metadata(doc_id)
GetMetadataOf(pts, doc_id) ==
    IF \E i \in 1..Len(pts) : pts[i].id = doc_id
    THEN pts[CHOOSE i \in 1..Len(pts) : pts[i].id = doc_id].payload
    ELSE EmptyDict

\* meta.get(key, default)
MetaGet(meta, key, default) == IF key \in DOMAIN meta THEN meta[key] ELSE default

(***************************************************************************)
(* RedundancyDetector.  A pool entry is <<fqn, doc_id>> as in the code.   *)
(***************************************************************************)
RedundancyHit(kind, source_fqn, duplicate_fqn, similarity) ==
    [kind |-> kind, source_fqn |-> source_fqn, duplicate_fqn |-> duplicate_fqn,
     similarity |-> similarity]

\* `"base data creation" in name or "setup" in name`, name lower-cased
IsSetupName(name) ==
    \/ Contains(Lower(Chars(name)), Chars("base data creation"))
    \/ Contains(Lower(Chars(name)), Chars("setup"))

\* an inner loop that runs over the whole list
WholeList(seq, i) == seq

\* setup_keywords[i + 1:], i counted from 0
SliceFrom(seq, i) == SubSeq(seq, i + 1, Len(seq))

\* a detector that compares keywords of one file too
NeverSameFile(src_a, src_b) == FALSE

\* `if src_a == src_b: continue`
SameFile(src_a, src_b) == src_a = src_b

\* the first loop of _horizontal: the setup keywords in scroll order
SetupKeywords(pts) ==
    FoldSeq(LAMBDA acc, pt :
                LET meta == GetMetadataOf(pts, pt.id)
                IN  IF IsSetupName(MetaGet(meta, "name", ""))
                    THEN Append(acc, <<MetaGet(meta, "fqn", ""), pt.id>>)
                    ELSE acc,
            <<>>, GetAllEmbeddings(pts, "keyword"))

\* the inner loop of _horizontal for one (fqn_a, id_a)
HorizontalRow(pts, embeddings, t, a, row, hits) ==
    FoldSeq(LAMBDA acc, b :
                LET src_a == MetaGet(GetMetadataOf(pts, a[2]), "source", "")
                    src_b == MetaGet(GetMetadataOf(pts, b[2]), "source", "")
                    sim == CosineSimilarity(VectorOf(embeddings, a[2]),
                                            VectorOf(embeddings, b[2]))
                IN  IF SameFile(src_a, src_b) THEN acc
                    ELSE IF AtLeast(sim, t)
                         THEN Append(acc, RedundancyHit("horizontal", a[1], b[1], sim))
                         ELSE acc,
            hits, row)

\* RedundancyDetector._horizontal: the hits appended to the report
Horizontal(pts, t, hits) ==
    LET setup_keywords == SetupKeywords(pts)
        embeddings == GetAllEmbeddings(pts, "keyword")
    IN  FoldSeq(LAMBDA acc, i :
                    HorizontalRow(pts, embeddings, t, setup_keywords[i],
                                  SliceFrom(setup_keywords, i), acc),
                hits, [i \in 1..Len(setup_keywords) |-> i])

\* a role test that lets every role through
AnyRole(role) == TRUE

\* `role == FileRole.ATOMIC_TEST.value`
IsAtomic(role) == role = "ATOMIC_TESTS"

\* `role == FileRole.E2E_TEST.value`
IsE2E(role) == role = "E2E_TESTS"

\* `role == FileRole.MIGRATION_TEST.value`
IsMigration(role) == role = "MIGRATION_TESTS"

\* `role in (FileRole.ATOMIC_TEST.value, FileRole.E2E_TEST.value)`
IsAtomicOrE2E(role) == role \in {"ATOMIC_TESTS", "E2E_TESTS"}

\* the first loop of _vertical: atomic_ids and sit_ids
VerticalPools(pts) ==
    FoldSeq(LAMBDA acc, pt :
                LET meta == GetMetadataOf(pts, pt.id)
                    role == MetaGet(meta, "role", "")
                    fqn == MetaGet(meta, "fqn", "")
                IN  IF IsAtomic(role)
                    THEN [acc EXCEPT !.atomic_ids = Append(@, <<fqn, pt.id>>)]
                    ELSE IF IsE2E(role)
                         THEN [acc EXCEPT !.sit_ids = Append(@, <<fqn, pt.id>>)]
                         ELSE acc,
            [atomic_ids |-> <<>>, sit_ids |-> <<>>],
            GetAllEmbeddings(pts, "test_case"))

\* RedundancyDetector._vertical: the hits appended to the report
Vertical(pts, t, hits) ==
    LET pools == VerticalPools(pts)
        embeddings == GetAllEmbeddings(pts, "test_case")
    IN  FoldSeq(LAMBDA acc1, a :
                    FoldSeq(LAMBDA acc, b :
                                LET sim == CosineSimilarity(VectorOf(embeddings, a[2]),
                                                            VectorOf(embeddings, b[2]))
                                IN  IF AtLeast(sim, t)
                                    THEN Append(acc, RedundancyHit("vertical",
                                                                   a[1], b[1], sim))
                                    ELSE acc,
                            acc1, pools.sit_ids),
                hits, pools.atomic_ids)

\* the first loop of _migration_sync: migration_ids and other_ids
MigrationPools(pts) ==
    FoldSeq(LAMBDA acc, pt :
                LET meta == GetMetadataOf(pts, pt.id)
                    role == MetaGet(meta, "role", "")
                    fqn == MetaGet(meta, "fqn", "")
                IN  IF IsMigration(role)
                    THEN [acc EXCEPT !.migration_ids = Append(@, <<fqn, pt.id>>)]
                    ELSE IF IsAtomicOrE2E(role)
                         THEN [acc EXCEPT !.other_ids = Append(@, <<fqn, pt.id>>)]
                         ELSE acc,
            [migration_ids |-> <<>>, other_ids |-> <<>>],
            GetAllEmbeddings(pts, "test_case"))

\* RedundancyDetector._migration_sync: the hits appended to the report
MigrationSync(pts, t, hits) ==
    LET pools == MigrationPools(pts)
        embeddings == GetAllEmbeddings(pts, "test_case")
    IN  FoldSeq(LAMBDA acc1, a :
                    FoldSeq(LAMBDA acc, b :
                                LET sim == CosineSimilarity(VectorOf(embeddings, a[2]),
                                                            VectorOf(embeddings, b[2]))
                                IN  IF AtLeast(sim, t)
                                    THEN Append(acc, RedundancyHit("migration_sync",
                                                                   a[1], b[1], sim))
                                    ELSE acc,
                            acc1, pools.other_ids),
                hits, pools.migration_ids)

\* RedundancyDetector.detect: report.hits
DetectHits(pts, t) == MigrationSync(pts, t, Vertical(pts, t, Horizontal(pts, t, <<>>)))

(***************************************************************************)
(* farthest_point_sampling.  A distance is [inf, d, n]: +infinity when inf *)
(* is 1, -infinity when inf is -1, and otherwise 1 - d / sqrt(n), the      *)
(* cosine distance of two normalised rows.                                 *)
(***************************************************************************)
SmokeCandidate(fqn, source, tags, distance_score) ==
    [fqn |-> fqn, source |-> source, tags |-> tags, distance_score |-> distance_score]

PlusInf == [inf |-> 1, d |-> 0, n |-> 1]

MinusInf == [inf |-> -1, d |-> 0, n |-> 1]

\* the distance 0.0
ZeroDistance == [inf |-> 0, d |-> 1, n |-> 1]

\* x < y on distances
DistLess(x, y) ==
    IF x.inf # y.inf THEN x.inf < y.inf
    ELSE IF x.inf # 0 THEN FALSE
    ELSE ~SimLeq(x, y)

\* `norms[norms == 0] = 1.0`, squared
SafeNormSq(a) == IF NormSq(a) = 0 THEN 1 ELSE NormSq(a)

\* one entry of `1.0 - matrix @ matrix[last]` on the normalised matrix
CosineDistance(a, b) == [inf |-> 0, d |-> Dot(a, b), n |-> SafeNormSq(a) * SafeNormSq(b)]

\* np.minimum on two entries
Minimum(x, y) == IF DistLess(y, x) THEN y ELSE x

\* the last index that holds the maximum
LastArgMax(dists) ==
    CHOOSE i \in 1..Len(dists) :
        /\ \A j \in 1..Len(dists) : ~DistLess(dists[i], dists[j])
        /\ \A j \in (i + 1)..Len(dists) : DistLess(dists[j], dists[i])

\* np.argmax: the first index that holds the maximum
ArgMax(dists) ==
    CHOOSE i \in 1..Len(dists) :
        /\ \A j \in 1..Len(dists) : ~DistLess(dists[i], dists[j])
        /\ \A j \in 1..(i - 1) : DistLess(dists[j], dists[i])

\* min(n, len(ids))
Min(a, b) == IF a < b THEN a ELSE b

\* the body of `for _ in range(k - 1)`, run `rounds` times
RECURSIVE FpsLoop(_, _, _)
FpsLoop(embeddings, st, rounds) ==
    IF rounds <= 0 THEN st
    ELSE LET last == st.selected_indices[Len(st.selected_indices)]
             lowered == [i \in 1..Len(embeddings) |->
                            Minimum(st.min_distances[i],
                                    CosineDistance(embeddings[i].vector,
                                                   embeddings[last].vector))]
             masked == [i \in 1..Len(embeddings) |->
                            IF \E s \in 1..Len(st.selected_indices) :
                                   st.selected_indices[s] = i
                            THEN MinusInf ELSE lowered[i]]
             next_idx == ArgMax(masked)
         IN  FpsLoop(embeddings,
                     [selected_indices |-> Append(st.selected_indices, next_idx),
                      min_distances |-> masked],
                     rounds - 1)

\* `[t.strip() for t in meta.get("tags", "").split(",") if t.strip()]`
TagList(meta) ==
    LET parts == Split(Chars(MetaGet(meta, "tags", "")), ",")
    IN  SelectSeq([i \in 1..Len(parts) |-> Strip(parts[i])], LAMBDA tag : tag # <<>>)

\* farthest_point_sampling(vector_store, n)
FarthestPointSampling(pts, n) ==
    LET embeddings == GetAllEmbeddings(pts, "test_case")
    IN  IF embeddings = <<>> THEN <<>>
        ELSE LET k == Min(n, Len(embeddings))
                 st == FpsLoop(embeddings,
                               [selected_indices |-> <<1>>,
                                min_distances |-> [i \in 1..Len(embeddings) |-> PlusInf]],
                               k - 1)
             IN  [c \in 1..Len(st.selected_indices) |->
                     LET idx == st.selected_indices[c]
                         meta == GetMetadataOf(pts, embeddings[idx].id)
                     IN  SmokeCandidate(MetaGet(meta, "fqn", embeddings[idx].id),
                                        MetaGet(meta, "source", ""),
                                        TagList(meta),
                                        IF st.min_distances[idx] # MinusInf
                                        THEN st.min_distances[idx] ELSE ZeroDistance)]

(***************************************************************************)
(* The artifacts a collection is drawn from, each with the embedding of    *)
(* its text, and the collections: arrangements of at most MaxPoints of     *)
(* them, the scroll order being that of digests.                           *)
(***************************************************************************)
Catalogue == <<
    KeywordPoint("s1.Base Data Creation", "Base Data Creation", "s1.robot",
                 "ATOMIC_TESTS", <<3, 4>>),
    KeywordPoint("s2.Suite SETUP", "Suite SETUP", "s2.robot", "E2E_TESTS", <<1, 0>>),
    KeywordPoint("s1.Setup", "Setup", "s1.robot", "ATOMIC_TESTS", <<1, 0>>),
    KeywordPoint("s3.Other KW", "Other KW", "s3.robot", "MIGRATION_TESTS", <<1, 0>>),
    TestCasePoint("s1.T1", "T1", "s1.robot", "ATOMIC_TESTS", "web", <<3, 4>>),
    TestCasePoint("s2.T2", "T2", "s2.robot", "E2E_TESTS", "ios, smoke", <<4, 3>>),
    TestCasePoint("s3.T3", "T3", "s3.robot", "MIGRATION_TESTS", "", <<1, 0>>),
    TestCasePoint("s4.T4", "T4", "s4.robot", "API", "web", <<1, 0>>),
    TestCasePoint("s1.T5", "T5", "s1.robot", "ATOMIC_TESTS", "", <<0, 0>>),
    TestCasePoint("s5.T6", "T6", "s5.robot", "MIGRATION_TESTS", "", <<4, 3>>)
>>

\* the most points of a collection
MaxPoints == 3

RECURSIVE Arrangements(_)
Arrangements(len) ==
    IF len = 0 THEN {<<>>}
    ELSE LET shorter == Arrangements(len - 1)
         IN  shorter \cup
             {Append(arr, i) : arr \in {x \in shorter : Len(x) = len - 1},
                               i \in 1..Len(Catalogue)}

\* Every query filters the scroll by type, so only the order among the
\* points of one type shows; a collection lists its keywords first.
Snapshots ==
    {[i \in 1..Len(arr) |-> Catalogue[arr[i]]] :
        arr \in {x \in Arrangements(MaxPoints) :
                    \A i, j \in 1..Len(x) :
                        i < j => /\ x[i] # x[j]
                                 /\ ~(/\ Catalogue[x[i]].payload.type = "test_case"
                                      /\ Catalogue[x[j]].payload.type = "keyword")}}

\* similarity thresholds, in hundredths; 90 is the configured default
Thresholds == {0, 50, 90}

\* the largest count asked of farthest_point_sampling
MaxN == 3

\* the ids get_metadata is asked about; no point has the last one
QueryIds == {"kw:s1.Setup", "tc:s2.T2", "tc:nowhere.T"}

(***************************************************************************)
(* SpecStore: the queries over one collection and one threshold.           *)
(***************************************************************************)
InitStore ==
    /\ graph = EmptyGraph
    /\ lastAdded = 0
    /\ file_map = <<>>
    /\ scope_cache = <<>>
    /\ heap = <<>>
    /\ points \in Snapshots
    /\ threshold \in Thresholds
    /\ engine = NoEngine
    /\ inflight = NoCalls
    /\ ret = NoCall

\* RedundancyDetector(...).detect(); the pools are the locals of the passes
Detect ==
    /\ ret' = [op |-> "detect", val |-> DetectHits(points, threshold),
               vertical |-> VerticalPools(points),
               migration |-> MigrationPools(points)]
    /\ UNCHANGED <<graph, lastAdded, file_map, scope_cache, heap, points, threshold, engine, inflight>>

\* farthest_point_sampling(vector_store, n)
Smoke(n) ==
    /\ ret' = [op |-> "smoke", arg |-> n, val |-> FarthestPointSampling(points, n)]
    /\ UNCHANGED <<graph, lastAdded, file_map, scope_cache, heap, points, threshold, engine, inflight>>

\* VectorStore.get_metadata(doc_id)
GetMetadata(doc_id) ==
    /\ ret' = [op |-> "get_metadata", arg |-> doc_id, val |-> GetMetadataOf(points, doc_id)]
    /\ UNCHANGED <<graph, lastAdded, file_map, scope_cache, heap, points, threshold, engine, inflight>>

NextStore ==
    \/ Detect
    \/ \E n \in 0..MaxN : Smoke(n)
    \/ \E doc_id \in QueryIds : GetMetadata(doc_id)

SpecStore == InitStore /\ [][NextStore]_vars

(***************************************************************************)
(* The collection as the claims speak of it.                               *)
(***************************************************************************)
PointsOfType(type) == {pt \in Elems(points) : pt.payload.type = type}

FqnsOfType(type) == {pt.payload.fqn : pt \in PointsOfType(type)}

\* the point a hit names by its FQN
Artifact(type, fqn) == CHOOSE pt \in PointsOfType(type) : pt.payload.fqn = fqn

\* the similarity of two artifacts reaches the threshold
Similar(type, a, b) ==
    AtLeast(CosineSimilarity(Artifact(type, a).vector, Artifact(type, b).vector),
            threshold)

HitsOfKind(kind) == {i \in 1..Len(ret.val) : ret.val[i].kind = kind}

CountHits(kind, a, b) ==
    Cardinality({i \in HitsOfKind(kind) :
                    ret.val[i].source_fqn = a /\ ret.val[i].duplicate_fqn = b})

\* two setup keywords
SetupPair(a, b) ==
    /\ a # b
    /\ IsSetupName(Artifact("keyword", a).payload.name)
    /\ IsSetupName(Artifact("keyword", b).payload.name)

SourceFile(type, fqn) == Artifact(type, fqn).payload.source

Role(fqn) == Artifact("test_case", fqn).payload.role

\* C6: no horizontal hit of detect() names two keywords that were indexed
\* from the same source file.
C6_HorizontalAcrossFiles ==
    ret.op = "detect" =>
        \A i \in HitsOfKind("horizontal") :
            /\ {ret.val[i].source_fqn, ret.val[i].duplicate_fqn} \subseteq FqnsOfType("keyword")
            /\ SourceFile("keyword", ret.val[i].source_fqn)
                   # SourceFile("keyword", ret.val[i].duplicate_fqn)

\* detect() reported a horizontal hit over a collection that also holds two
\* similar setup keywords of one file
C6_Witness ==
    /\ ret.op = "detect"
    /\ HitsOfKind("horizontal") # {}
    /\ \E a, b \in FqnsOfType("keyword") :
           /\ SetupPair(a, b)
           /\ SourceFile("keyword", a) = SourceFile("keyword", b)
           /\ Similar("keyword", a, b)

\* C7: the horizontal hits are one per unordered pair of setup keywords (name
\* containing "base data creation" or "setup", case-insensitively) of
\* different source files whose similarity reaches the threshold, in one
\* order only, and there is no horizontal hit for any other pair.
C7_HorizontalExactlyOnce ==
    ret.op = "detect" =>
        /\ \A i \in HitsOfKind("horizontal") :
               {ret.val[i].source_fqn, ret.val[i].duplicate_fqn} \subseteq FqnsOfType("keyword")
        /\ \A a, b \in FqnsOfType("keyword") :
               CountHits("horizontal", a, b)
                   + (IF a # b THEN CountHits("horizontal", b, a) ELSE 0)
               = IF /\ SetupPair(a, b)
                    /\ SourceFile("keyword", a) # SourceFile("keyword", b)
                    /\ Similar("keyword", a, b)
                 THEN 1 ELSE 0

\* detect() reported a horizontal hit and passed over a pair of setup keywords
\* of different files that is below the threshold
C7_Witness ==
    /\ ret.op = "detect"
    /\ HitsOfKind("horizontal") # {}
    /\ \E a, b \in FqnsOfType("keyword") :
           /\ SetupPair(a, b)
           /\ SourceFile("keyword", a) # SourceFile("keyword", b)
           /\ ~Similar("keyword", a, b)

\* C8: the vertical hits are one for each pair of an atomic test case and an
\* end-to-end test case whose similarity reaches the threshold and none
\* else, source atomic and duplicate end-to-end, and no test case is in both
\* pools of the pass.
C8_VerticalCrossProduct ==
    ret.op = "detect" =>
        /\ \A i \in HitsOfKind("vertical") :
               /\ {ret.val[i].source_fqn, ret.val[i].duplicate_fqn}
                      \subseteq FqnsOfType("test_case")
               /\ Role(ret.val[i].source_fqn) = "ATOMIC_TESTS"
               /\ Role(ret.val[i].duplicate_fqn) = "E2E_TESTS"
        /\ \A a, b \in FqnsOfType("test_case") :
               CountHits("vertical", a, b)
               = IF /\ Role(a) = "ATOMIC_TESTS"
                    /\ Role(b) = "E2E_TESTS"
                    /\ Similar("test_case", a, b)
                 THEN 1 ELSE 0
        /\ Elems(ret.vertical.atomic_ids) \cap Elems(ret.vertical.sit_ids) = {}

\* detect() reported a vertical hit and passed over an atomic and an
\* end-to-end test case that are below the threshold
C8_Witness ==
    /\ ret.op = "detect"
    /\ HitsOfKind("vertical") # {}
    /\ \E a, b \in FqnsOfType("test_case") :
           /\ Role(a) = "ATOMIC_TESTS"
           /\ Role(b) = "E2E_TESTS"
           /\ ~Similar("test_case", a, b)

\* C9: the migration_sync hits are one for each pair of a migration test case
\* and an atomic or end-to-end test case whose similarity reaches the
\* threshold and none else; the source has role migration, the duplicate
\* never.
C9_MigrationSyncCrossProduct ==
    ret.op = "detect" =>
        /\ \A i \in HitsOfKind("migration_sync") :
               /\ {ret.val[i].source_fqn, ret.val[i].duplicate_fqn}
                      \subseteq FqnsOfType("test_case")
               /\ Role(ret.val[i].source_fqn) = "MIGRATION_TESTS"
               /\ Role(ret.val[i].duplicate_fqn) # "MIGRATION_TESTS"
        /\ \A a, b \in FqnsOfType("test_case") :
               CountHits("migration_sync", a, b)
               = IF /\ Role(a) = "MIGRATION_TESTS"
                    /\ Role(b) \in {"ATOMIC_TESTS", "E2E_TESTS"}
                    /\ Similar("test_case", a, b)
                 THEN 1 ELSE 0

\* detect() reported a migration_sync hit over a collection with two similar
\* migration test cases
C9_Witness ==
    /\ ret.op = "detect"
    /\ HitsOfKind("migration_sync") # {}
    /\ \E a, b \in FqnsOfType("test_case") :
           /\ a # b
           /\ Role(a) = "MIGRATION_TESTS"
           /\ Role(b) = "MIGRATION_TESTS"
           /\ Similar("test_case", a, b)

\* C10: farthest_point_sampling(n), n >= 0, returns min(n, |C|) candidates,
\* C the test-case points, and no two of them have the same identity.
C10_ExactlyKDistinct ==
    (ret.op = "smoke" /\ ret.arg >= 0) =>
        /\ Len(ret.val) = Min(ret.arg, Cardinality(PointsOfType("test_case")))
        /\ \A i, j \in 1..Len(ret.val) : i # j => ret.val[i].fqn # ret.val[j].fqn
        /\ \A i \in 1..Len(ret.val) : ret.val[i].fqn \in FqnsOfType("test_case")

\* x = y on distances
DistEq(x, y) == ~DistLess(x, y) /\ ~DistLess(y, x)

\* the least distance of the test case fqn to the candidates val[1..j-1]
RECURSIVE RunningMin(_, _, _)
RunningMin(val, fqn, j) ==
    IF j <= 1 THEN PlusInf
    ELSE Minimum(RunningMin(val, fqn, j - 1),
                 CosineDistance(Artifact("test_case", fqn).vector,
                                Artifact("test_case", val[j - 1].fqn).vector))

\* C11: in the result of farthest_point_sampling the seed's distance_score is
\* 0 and the distance_score of every later candidate is the least distance
\* to the candidates selected before it, the running minimum it had when it
\* was selected.
C11_ScoreIsRunningMinimum ==
    (ret.op = "smoke" /\ ret.arg >= 1 /\ ret.val # <<>>) =>
        /\ DistEq(ret.val[1].distance_score, ZeroDistance)
        /\ \A j \in 2..Len(ret.val) :
               DistEq(ret.val[j].distance_score, RunningMin(ret.val, ret.val[j].fqn, j))


(***************************************************************************)
(* vectorstore.py: index_file.  The collection is the sequence of its      *)
(* points; upsert overwrites the point that has the id, or adds one.       *)
(***************************************************************************)
\* the str whose characters are cs
Str(cs) == CHOOSE s \in DOMAIN StrChars : StrChars[s] = cs

\* ",".join(tags)
RECURSIVE JoinTags(_)
JoinTags(tags) ==
    IF tags = <<>> THEN ""
    ELSE IF Len(tags) = 1 THEN tags[1]
    ELSE tags[1] \o "," \o JoinTags(Tail(tags))

\* Path(rel_path).stem: the last component without its last suffix
LastDot(cs) == IF \E i \in 2..Len(cs) : cs[i] = "."
               THEN CHOOSE i \in 2..Len(cs) :
                        cs[i] = "." /\ \A j \in (i + 1)..Len(cs) : cs[j] # "."
               ELSE Len(cs) + 1

PathStem(rel_path) ==
    LET parts == Split(Chars(rel_path), "/")
        last == parts[Len(parts)]
    IN  Str(SubSeq(last, 1, LastDot(last) - 1))

\* _build_embedding_text(doc, body, name): the parts that are joined by
\* "\n".  The artifacts of the model have no body text.
BuildEmbeddingText(doc, name) ==
    LET parts == (IF doc # "" THEN <<doc>> ELSE <<>>)
                 \o (IF name # "" /\ ~Contains(Chars(doc), Chars(name))
                     THEN <<name>> ELSE <<>>)
    IN  IF parts # <<>> THEN parts ELSE <<name>>

\* VectorStore._embed on one text: the encoder is a fixed function of the
\* text, here of the lengths of its parts
Embed(text) == <<Len(text), Len(Chars(text[1]))>>

\* the points index_file builds for rf, in the order of ids / texts
IndexPoints(rf) ==
    [i \in 1..Len(rf.keywords) |->
        LET kw == rf.keywords[i]
        IN  [id |-> DocId("kw:" \o kw.fqn),
             vector |-> Embed(BuildEmbeddingText(kw.documentation, kw.name)),
             payload |-> [type |-> "keyword", fqn |-> kw.fqn, name |-> kw.name,
                          source |-> rf.rel_path, role |-> rf.role,
                          platform |-> rf.platform, tags |-> JoinTags(kw.tags)]]]
    \o
    [i \in 1..Len(rf.test_cases) |->
        LET tc == rf.test_cases[i]
        IN  [id |-> DocId("tc:" \o tc.fqn),
             vector |-> Embed(BuildEmbeddingText(tc.documentation, tc.name)),
             payload |-> [type |-> "test_case", fqn |-> tc.fqn, name |-> tc.name,
                          source |-> rf.rel_path, role |-> rf.role,
                          platform |-> rf.platform, tags |-> JoinTags(tc.tags)]]]
    \o
    (IF rf.documentation # ""
     THEN <<[id |-> DocId("file:" \o rf.rel_path),
             vector |-> Embed(<<rf.documentation>>),
             payload |-> [type |-> "file_doc", fqn |-> rf.rel_path,
                          name |-> PathStem(rf.rel_path),
                          source |-> rf.rel_path, role |-> rf.role,
                          platform |-> rf.platform, tags |-> ""]]>>
     ELSE <<>>)

\* an upsert that always adds a point
AlwaysNew(pts, id) == FALSE

\* whether the collection holds a point with the id
HasPoint(pts, id) == \E i \in 1..Len(pts) : pts[i].id = id

\* QdrantClient.upsert of one point
UpsertPoint(pts, pt) ==
    IF HasPoint(pts, pt.id)
    THEN [i \in 1..Len(pts) |-> IF pts[i].id = pt.id THEN pt ELSE pts[i]]
    ELSE Append(pts, pt)

\* the collection after VectorStore.index_file(rf)
IndexFileUpsert(pts, rf) == FoldSeq(UpsertPoint, pts, IndexPoints(rf))

\* what VectorStore.index_file(rf) returns: len(texts)
IndexFileCount(rf) == Len(IndexPoints(rf))

\* VectorStore.count()
CountPoints(pts) == Len(pts)

PointIds(pts) == {pts[i].id : i \in 1..Len(pts)}


(***************************************************************************)
(* engine.py: RFRAGEngine.  The engine's file_map is the dict its resolver *)
(* holds; graph and points are its RFGraph and its VectorStore.            *)
(***************************************************************************)
\* the files of the project tree, in crawl (sorted path) order; d/a has the
\* stem of a, so its keyword has the FQN a.K1 too
EngineFiles == <<
    ResourceFile("a", "ATOMIC_TESTS", "common", "",
        <<"d/a", "zz">>,
        <<KeywordDef("K1", "a.K1", "", <<>>, <<>>, 1)>>,
        <<TestCaseDef("T1", "a.T1", "uses K1", <<"web">>, <<"K1">>, 5)>>,
        <<>>,
        <<LocatorMapping("title", "//ios", None)>>),
    ResourceFile("d/a", "API", "common", "zz",
        <<"../a">>,
        <<KeywordDef("K1", "a.K1", "uses K1", <<>>, <<>>, 1)>>,
        <<>>, <<>>, <<>>)
>>

\* crawl(project_root): the files present at the time of one ingest()
RECURSIVE CrawlsFrom(_)
CrawlsFrom(i) ==
    IF i > Len(EngineFiles) THEN {<<>>}
    ELSE LET rest == CrawlsFrom(i + 1)
         IN  rest \cup {<<EngineFiles[i]>> \o c : c \in rest}

Crawls == CrawlsFrom(1)

\* what goes wrong during one ingest(): nothing, or one step raises an
\* Exception: parse_file, add_file or index_file on the file at position
\* `at` of the crawl, or graph.save / graph.summary after the loop
NoFailure == [step |-> "none", at |-> 0]

Plans(crawl) ==
    {NoFailure, [step |-> "save", at |-> 0]}
    \cup [step : {"parse", "add_file", "index_file"}, at : 1..Len(crawl)]

\* self.file_map[rel] = rf
DictSet(fm, rf) ==
    IF rf.rel_path \in FmKeys(fm)
    THEN [i \in 1..Len(fm) |-> IF fm[i].rel_path = rf.rel_path THEN rf ELSE fm[i]]
    ELSE Append(fm, rf)

\* a handler that lets the parse error end the batch
AbortBatch(st) == [st EXCEPT !.raised = TRUE]

\* `except Exception: logger.exception(...); continue`
OnParseError(st) == st

\* the locals and the stores at the start of the loop of ingest()
IngestStart(fm, g, pts) ==
    [fm |-> fm, g |-> g, pts |-> pts, files_crawled |-> 0, keywords_total |-> 0,
     tests_total |-> 0, vectors_total |-> 0, raised |-> FALSE]

\* one iteration of `for filepath in crawl(project_root)`, on the file at
\* position i; once an exception has left the loop nothing more runs
IngestFile(st, crawl, plan, i) ==
    LET rf == crawl[i]
        fm1 == DictSet(st.fm, rf)
    IN  IF st.raised THEN st
        ELSE IF plan = [step |-> "parse", at |-> i] THEN OnParseError(st)
        ELSE IF plan = [step |-> "add_file", at |-> i]
             THEN [st EXCEPT !.fm = fm1, !.raised = TRUE]
        ELSE IF plan = [step |-> "index_file", at |-> i]
             THEN [st EXCEPT !.fm = fm1, !.g = AddFileTx(st.g, rf), !.raised = TRUE]
        ELSE [st EXCEPT !.fm = fm1,
                        !.g = AddFileTx(st.g, rf),
                        !.pts = IndexFileUpsert(st.pts, rf),
                        !.vectors_total = @ + IndexFileCount(rf),
                        !.files_crawled = @ + 1,
                        !.keywords_total = @ + Len(rf.keywords),
                        !.tests_total = @ + Len(rf.test_cases)]

\* the loop of ingest()
IngestLoop(fm, g, pts, crawl, plan) ==
    FoldSeq(LAMBDA st, i : IngestFile(st, crawl, plan, i),
            IngestStart(fm, g, pts), [i \in 1..Len(crawl) |-> i])

\* RFGraph.summary(): total_nodes and total_edges
Summary(g) == [total_nodes |-> Cardinality(g.nodes),
               total_edges |-> Cardinality(g.edges)]

\* the stats dict ingest() returns
Stats(st) ==
    [files_crawled |-> st.files_crawled, keywords |-> st.keywords_total,
     test_cases |-> st.tests_total, vectors_indexed |-> st.vectors_total,
     total_nodes |-> Summary(st.g).total_nodes,
     total_edges |-> Summary(st.g).total_edges]

InitEngine ==
    /\ graph = EmptyGraph
    /\ lastAdded = 0
    /\ file_map = <<>>
    /\ scope_cache = <<>>
    /\ heap = <<>>
    /\ points = <<>>
    /\ threshold = 0
    /\ engine = NoEngine
    /\ inflight = NoCalls
    /\ ret = NoCall

\* RFRAGEngine.ingest()
Ingest(crawl, plan) ==
    LET st == IngestLoop(file_map, graph, points, crawl, plan)
    IN  /\ file_map' = st.fm
        /\ graph' = st.g
        /\ points' = st.pts
        /\ UNCHANGED <<lastAdded, threshold, inflight>>
        /\ IF st.raised
           THEN /\ UNCHANGED <<scope_cache, heap, engine>>
                /\ ret' = [op |-> "ingest", crawl |-> crawl, plan |-> plan,
                           raised |-> "Exception"]
           ELSE /\ scope_cache' = <<>>
                /\ heap' = <<>>
                /\ IF plan.step = "save"
                   THEN /\ engine' = [engine EXCEPT !.resolver = TRUE,
                                                    !.query_engine = TRUE,
                                                    !.codegen = TRUE]
                        /\ ret' = [op |-> "ingest", crawl |-> crawl, plan |-> plan,
                                   raised |-> "Exception"]
                   ELSE /\ engine' = [resolver |-> TRUE, query_engine |-> TRUE,
                                      codegen |-> TRUE, completed |-> TRUE]
                        /\ ret' = [op |-> "ingest", crawl |-> crawl, plan |-> plan,
                                   raised |-> None, val |-> Stats(st)]

\* a guard that lets every call through
NeverNone(e) == FALSE

\* `if self._query_engine is None`
QueryEngineIsNone(e) == ~e.query_engine

\* `if self._codegen is None`
CodegenIsNone(e) == ~e.codegen

\* `raise RuntimeError("Run ingest() first.")`
RunIngestFirst(op) == [op |-> op, raised |-> "RuntimeError", val |-> None]

Unraised(op, val) == [op |-> op, raised |-> None, val |-> val]

\* sum(len(rf.keywords) ...) and sum(len(rf.test_cases) ...) over the file map
CountKeywords(fm) == FoldSeq(LAMBDA acc, rf : acc + Len(rf.keywords), 0, fm)

CountTestCases(fm) == FoldSeq(LAMBDA acc, rf : acc + Len(rf.test_cases), 0, fm)

\* RFRAGEngine.query(text, n=10): the count of the QueryResult
Query ==
    /\ ret' = IF QueryEngineIsNone(engine) THEN RunIngestFirst("query")
              ELSE Unraised("query", Min(10, CountPoints(points)))
    /\ UNCHANGED <<graph, lastAdded, file_map, scope_cache, heap, points, threshold, engine, inflight>>

\* RFRAGEngine.inventory_keywords(): the count of the QueryResult
InventoryKeywords ==
    /\ ret' = IF QueryEngineIsNone(engine) THEN RunIngestFirst("inventory_keywords")
              ELSE Unraised("inventory_keywords", CountKeywords(file_map))
    /\ UNCHANGED <<graph, lastAdded, file_map, scope_cache, heap, points, threshold, engine, inflight>>

\* RFRAGEngine.inventory_tests(): the count of the QueryResult
InventoryTests ==
    /\ ret' = IF QueryEngineIsNone(engine) THEN RunIngestFirst("inventory_tests")
              ELSE Unraised("inventory_tests", CountTestCases(file_map))
    /\ UNCHANGED <<graph, lastAdded, file_map, scope_cache, heap, points, threshold, engine, inflight>>

\* RFGraph.callers_of(keyword_fqn): the uids of the callers, as a set
CallersOf(g, keyword_fqn) ==
    {e[1][2] : e \in {d \in g.edges : d[3] = "CALLS" /\ d[2][2] = keyword_fqn}}

\* "mutation"
MutationWord == <<"m", "u", "t", "a", "t", "i", "o", "n">>

\* `"mutation" in kw.name.lower() or "mutation" in kw.documentation.lower()`
IsMutation(kw) ==
    \/ Contains(Lower(Chars(kw.name)), MutationWord)
    \/ Contains(Lower(Chars(kw.documentation)), MutationWord)

\* api_keywords: the FQNs of the mutation keywords of the API files
ApiKeywords(fm) ==
    FoldSeq(LAMBDA acc, rf :
                IF rf.role = "API"
                THEN acc \o SelectSeq([i \in 1..Len(rf.keywords) |->
                                          IF IsMutation(rf.keywords[i])
                                          THEN rf.keywords[i].fqn ELSE None],
                                      LAMBDA fqn : fqn # None)
                ELSE acc,
            <<>>, fm)

\* node_type is "test_case" and the file map has the source as an E2E file
IsSitTestCase(fm, node_data) ==
    /\ "node_type" \in DOMAIN node_data
    /\ node_data.node_type = "test_case"
    /\ LET src == IF "source" \in DOMAIN node_data THEN node_data.source ELSE ""
       IN  src \in FmKeys(fm) /\ FmGet(fm, src).role = "E2E_TESTS"

\* has_sit after the loop over the callers of fqn and over their callers;
\* node_data takes the first of the nodes that have the uid, in no fixed order
HasSitOutcomes(g, fm, fqn) ==
    LET callers == CallersOf(g, fqn)
        examined == callers \cup UNION {CallersOf(g, caller) : caller \in callers}
        can == \E u \in examined : \E nd \in NodeDataResults(g, u) : IsSitTestCase(fm, nd)
        must == \E u \in examined : \A nd \in NodeDataResults(g, u) : IsSitTestCase(fm, nd)
    IN  {b \in BOOLEAN : (b => can) /\ (~b => ~must)}

\* QueryEngine.graphql_mutations_without_sit: the item lists it can return
MutationsWithoutSit(g, fm) ==
    LET api_keywords == ApiKeywords(fm)
    IN  {FoldSeq(LAMBDA uncovered, i :
                     IF has_sit[i] THEN uncovered
                     ELSE Append(uncovered, [fqn |-> api_keywords[i],
                                             callers |-> CallersOf(g, api_keywords[i])]),
                 <<>>, [i \in 1..Len(api_keywords) |-> i]) :
            has_sit \in {h \in [1..Len(api_keywords) -> BOOLEAN] :
                            \A i \in 1..Len(api_keywords) :
                                h[i] \in HasSitOutcomes(g, fm, api_keywords[i])}}

\* RFRAGEngine.graphql_coverage(): a read-only query of graph and file map
GraphqlCoverage ==
    /\ IF QueryEngineIsNone(engine) THEN ret' = RunIngestFirst("graphql_coverage")
       ELSE \E items \in MutationsWithoutSit(graph, file_map) :
                ret' = Unraised("graphql_coverage", items)
    /\ UNCHANGED <<graph, lastAdded, file_map, scope_cache, heap, points, threshold, engine, inflight>>

\* RFRAGEngine.po_mismatches(): the items of the QueryResult
PoMismatches ==
    /\ ret' = IF QueryEngineIsNone(engine) THEN RunIngestFirst("po_mismatches")
              ELSE Unraised("po_mismatches", MismatchedPoRecords(graph))
    /\ UNCHANGED <<graph, lastAdded, file_map, scope_cache, heap, points, threshold, engine, inflight>>

\* RFRAGEngine.effective_scope(rel_path): the keywords of the QueryResult; the
\* resolver caches the list it builds
EffectiveScope(p) ==
    /\ IF QueryEngineIsNone(engine)
       THEN /\ ret' = RunIngestFirst("effective_scope")
            /\ UNCHANGED <<scope_cache, heap>>
       ELSE IF CacheHit(scope_cache, p)
       THEN /\ ret' = Unraised("effective_scope", heap[scope_cache[p]])
            /\ UNCHANGED <<scope_cache, heap>>
       ELSE LET st == Walk(file_map, p, WalkStart)
                result == <<p, Allocated(heap, p) + 1>>
            IN  /\ Allocated(heap, p) < MaxAlloc
                /\ heap' = (result :> st.acc) @@ heap
                /\ scope_cache' = (p :> result) @@ scope_cache
                /\ ret' = Unraised("effective_scope", st.acc)
    /\ UNCHANGED <<graph, lastAdded, file_map, points, threshold, engine, inflight>>

\* RFRAGEngine.generate(...): reads the stores and renders a suite
Generate ==
    /\ ret' = IF CodegenIsNone(engine) THEN RunIngestFirst("generate")
              ELSE Unraised("generate", None)
    /\ UNCHANGED <<graph, lastAdded, file_map, scope_cache, heap, points, threshold, engine, inflight>>

\* the paths effective_scope is asked about
ScopePaths == {"a", "zz"}

NextEngine ==
    \/ \E crawl \in Crawls : \E plan \in Plans(crawl) : Ingest(crawl, plan)
    \/ Query
    \/ InventoryKeywords
    \/ InventoryTests
    \/ GraphqlCoverage
    \/ PoMismatches
    \/ \E p \in ScopePaths : EffectiveScope(p)
    \/ Generate

SpecEngine == InitEngine /\ [][NextEngine]_vars


\* the operations of the engine that ask for an earlier ingest()
GuardedOps == {"query", "inventory_keywords", "inventory_tests", "graphql_coverage",
               "po_mismatches", "effective_scope", "generate"}

\* C13: while no ingest() has completed, each of query, inventory_keywords,
\* inventory_tests, graphql_coverage, po_mismatches, effective_scope and
\* generate raises RuntimeError and changes nothing of the engine; once an
\* ingest() has completed, none of them raises that error.
C13_RunIngestFirst ==
    [][ret'.op \in GuardedOps =>
          IF engine.completed
          THEN ret'.raised # "RuntimeError"
          ELSE /\ ret'.raised = "RuntimeError"
               /\ UNCHANGED <<graph, file_map, scope_cache, heap, points, engine, inflight>>]_vars


\* the crawl without the file at position k
Without(crawl, k) == SubSeq(crawl, 1, k - 1) \o SubSeq(crawl, k + 1, Len(crawl))

\* the ids index_file writes for the files of a crawl
IdsOf(crawl) == UNION {PointIds(IndexPoints(crawl[j])) : j \in 1..Len(crawl)}

\* C14: when parse_file fails for one crawled file, ingest() leaves the file
\* map, the graph and the vector index as an ingest of the other files
\* leaves them: the file enters none of them and is not counted in
\* files_crawled, and every other file of the crawl, the later ones
\* included, is in the file map, the graph and the index.
C14_ParseFailureSkipsFile ==
    [][(ret'.op = "ingest" /\ ret'.plan.step = "parse") =>
          LET crawl == ret'.crawl
              k == ret'.plan.at
              others == Without(crawl, k)
              clean == IngestLoop(file_map, graph, points, others, NoFailure)
          IN  /\ ret'.raised = None
              /\ ret'.val.files_crawled = Len(crawl) - 1
              /\ ret'.val = Stats(clean)
              /\ file_map' = clean.fm
              /\ graph' = clean.g
              /\ points' = clean.pts
              /\ FmKeys(file_map') = FmKeys(file_map) \cup FmKeys(others)
              /\ PointIds(points') = PointIds(points) \cup IdsOf(others)
              /\ \A j \in 1..Len(others) :
                    /\ FmGet(file_map', others[j].rel_path) = others[j]
                    /\ <<"File", others[j].rel_path>> \in graph'.nodes]_vars

\* an ingest of two files where parsing the first one failed: the second
\* one is in the file map and the first one is not
C14_Witness ==
    /\ ret.op = "ingest"
    /\ ret.plan = [step |-> "parse", at |-> 1]
    /\ Len(ret.crawl) = 2
    /\ ret.raised = None
    /\ ret.val.files_crawled = 1
    /\ ret.crawl[2].rel_path \in FmKeys(file_map)
    /\ ret.crawl[1].rel_path \notin FmKeys(file_map)
    /\ PointIds(points) = PointIds(IndexPoints(ret.crawl[2]))


\* C15: a failure in a per-file step of ingest() (parse_file, add_file or
\* index_file) never aborts the batch: ingest() still returns its stats and
\* every other file of the crawl is in the file map, the graph and the
\* vector index.
C15_PerFileFailureNeverAborts ==
    [][(ret'.op = "ingest" /\ ret'.plan.step \in {"parse", "add_file", "index_file"}) =>
          LET others == Without(ret'.crawl, ret'.plan.at)
          IN  /\ ret'.raised = None
              /\ ret'.val.files_crawled = Len(others)
              /\ IdsOf(others) \subseteq PointIds(points')
              /\ \A j \in 1..Len(others) :
                    /\ others[j].rel_path \in FmKeys(file_map')
                    /\ <<"File", others[j].rel_path>> \in graph'.nodes]_vars


(***************************************************************************)
(* SpecConfig: redundancy() and smoke() of an engine whose configuration   *)
(* holds any float as similarity_threshold, called with any int as n.      *)
(* RAGConfig declares its fields without a validator, and cli.py assigns   *)
(* engine.cfg.similarity_threshold directly.                               *)
(***************************************************************************)
\* RAGConfig.smoke_test_count
SmokeTestCount == 20

\* values of cfg.similarity_threshold, in hundredths: inside and outside [0, 1]
ConfigThresholds == {-10, 90, 150}

\* values of the argument n of smoke(); 0 stands for None as well, both
\* being falsy in `n or self.cfg.smoke_test_count`
SampleCounts == {-1, 0, 2}

InitConfig ==
    /\ graph = EmptyGraph
    /\ lastAdded = 0
    /\ file_map = <<>>
    /\ scope_cache = <<>>
    /\ heap = <<>>
    /\ points \in Snapshots
    /\ threshold \in ConfigThresholds
    /\ engine = NoEngine
    /\ inflight = NoCalls
    /\ ret = NoCall

\* RFRAGEngine.redundancy(): a detector over cfg.similarity_threshold
Redundancy ==
    /\ ret' = [op |-> "redundancy", raised |-> None,
               val |-> DetectHits(points, threshold)]
    /\ UNCHANGED <<graph, lastAdded, file_map, scope_cache, heap, points, threshold, engine, inflight>>

\* RFRAGEngine.smoke(n)
EngineSmoke(n) ==
    /\ LET count == IF n # 0 THEN n ELSE SmokeTestCount
       IN  ret' = [op |-> "smoke", arg |-> n, raised |-> None,
                   val |-> FarthestPointSampling(points, count)]
    /\ UNCHANGED <<graph, lastAdded, file_map, scope_cache, heap, points, threshold, engine, inflight>>

NextConfig ==
    \/ Redundancy
    \/ \E n \in SampleCounts : EngineSmoke(n)

SpecConfig == InitConfig /\ [][NextConfig]_vars

\* C16: configuration errors fail fast: with a similarity threshold outside
\* [0, 1] redundancy detection raises, before any pair is compared, and
\* with a negative sample count smoke selection raises, before any
\* candidate is selected.
C16_ConfigErrorsFailFast ==
    /\ (ret.op = "redundancy" /\ (threshold < 0 \/ threshold > 100)) =>
           ret.raised # None
    /\ (ret.op = "smoke" /\ ret.arg < 0) =>
           ret.raised # None


(***************************************************************************)
(* parser.py / models.py: the two ways a VariableDef comes to exist, the   *)
(* Variables section of parse_file and the constructor of the model class. *)
(***************************************************************************)
\* the value the parser stores for a sensitive name
Redacted == "***REDACTED***"

\* "    ".join(tokens), the empty tokens already dropped
RECURSIVE JoinTokens(_)
JoinTokens(tokens) ==
    IF tokens = <<>> THEN ""
    ELSE IF Len(tokens) = 1 THEN tokens[1]
    ELSE tokens[1] \o "    " \o JoinTokens(Tail(tokens))

\* the sensitive terms of the parser
SensitiveTerms == {"password", "secret", "token", "key", "credential"}

\* any(s in lower_name for s in (...)) with lower_name = var_name.lower()
IsSensitive(var_name) ==
    \E term \in SensitiveTerms : Contains(Lower(Chars(var_name)), Chars(term))

\* the type the parser derives from the prefix of the name
VarTypeOf(var_name) ==
    IF StartsAt(Chars(var_name), 1, <<"&">>) THEN "dict"
    ELSE IF StartsAt(Chars(var_name), 1, <<"@">>) THEN "list"
    ELSE "scalar"

\* VariableDef(name=..., value_repr=..., source_file=..., var_type=...): a
\* pydantic model with plain fields, which stores what it is given
NewVariableDef(name, value_repr, source_file, var_type) ==
    [name |-> name, value_repr |-> value_repr, source_file |-> source_file,
     var_type |-> var_type]

\* the VariableDef parse_file appends for one item of a Variables section
ParsedVariable(var_name, tokens, rel_path) ==
    LET value_repr == JoinTokens(tokens)
        safe_value == IF IsSensitive(var_name) THEN Redacted ELSE value_repr
    IN  NewVariableDef(var_name, safe_value, rel_path, VarTypeOf(var_name))

\* names of variables: sensitive in either case, by substring, and not
VariableNames == {"${API_KEY}", "${Password}", "&{TOKENS}", "@{monkeys}",
                  "${my secret}", "${CREDENTIALS}", "${URL}", "@{users}"}

\* the data tokens of a variable item
TokenLists == {<<>>, <<"hunter2">>, <<"a", "b">>, <<"***REDACTED***">>}

VarTypes == {"scalar", "list", "dict"}

InitVariables ==
    /\ graph = EmptyGraph
    /\ lastAdded = 0
    /\ file_map = <<>>
    /\ scope_cache = <<>>
    /\ heap = <<>>
    /\ points = <<>>
    /\ threshold = 0
    /\ engine = NoEngine
    /\ inflight = NoCalls
    /\ ret = NoCall

\* parse_file on a file with one variable item
ParseVariable(var_name, tokens, rel_path) ==
    /\ ret' = [op |-> "parse_file", val |-> ParsedVariable(var_name, tokens, rel_path)]
    /\ UNCHANGED <<graph, lastAdded, file_map, scope_cache, heap, points, threshold, engine, inflight>>

\* a caller of the model class, as the fixtures of the test suite are
CreateVariableDef(name, value_repr, var_type) ==
    /\ ret' = [op |-> "VariableDef", val |-> NewVariableDef(name, value_repr, "", var_type)]
    /\ UNCHANGED <<graph, lastAdded, file_map, scope_cache, heap, points, threshold, engine, inflight>>

NextVariables ==
    \/ \E var_name \in VariableNames, tokens \in TokenLists, rel_path \in {"a", "b"} :
           ParseVariable(var_name, tokens, rel_path)
    \/ \E name \in VariableNames, tokens \in TokenLists, var_type \in VarTypes :
           CreateVariableDef(name, JoinTokens(tokens), var_type)

SpecVariables == InitVariables /\ [][NextVariables]_vars

\* C17: every VariableDef whose name contains, in any case, one of
\* password, secret, token, key, credential has the redaction marker as
\* its value_repr, by whichever code path it was created.
C17_SensitiveValuesRedacted ==
    (ret.op \in {"parse_file", "VariableDef"} /\ IsSensitive(ret.val.name)) =>
        ret.val.value_repr = "***REDACTED***"


(***************************************************************************)
(* SpecIndex: index_file and count on one VectorStore.                     *)
(***************************************************************************)
InitIndex ==
    /\ graph = EmptyGraph
    /\ lastAdded = 0
    /\ file_map = <<>>
    /\ scope_cache = <<>>
    /\ heap = <<>>
    /\ points = <<>>
    /\ threshold = 0
    /\ engine = NoEngine
    /\ inflight = NoCalls
    /\ ret = NoCall

\* VectorStore.index_file(rf); again says that the call before this one was
\* index_file on the same rf
IndexFile(i) ==
    /\ points' = IndexFileUpsert(points, GraphFiles[i])
    /\ ret' = [op |-> "index_file", arg |-> i, val |-> IndexFileCount(GraphFiles[i]),
               again |-> (ret.op = "index_file" /\ ret.arg = i)]
    /\ UNCHANGED <<graph, lastAdded, file_map, scope_cache, heap, threshold, engine, inflight>>

\* VectorStore.count()
Count ==
    /\ ret' = [op |-> "count", val |-> CountPoints(points)]
    /\ UNCHANGED <<graph, lastAdded, file_map, scope_cache, heap, points, threshold, engine, inflight>>

NextIndex ==
    \/ \E i \in 1..Len(GraphFiles) : IndexFile(i)
    \/ Count

SpecIndex == InitIndex /\ [][NextIndex]_vars

\* C18: calling index_file(rf) a second time leaves count() and the set of
\* point ids as they were after the first call.
C18_IndexFileIdempotent ==
    [][(ret'.op = "index_file" /\ ret'.again) =>
          /\ CountPoints(points') = CountPoints(points)
          /\ PointIds(points') = PointIds(points)]_vars

\* a file that wrote four points has been indexed twice in a row while the
\* collection holds other points as well
C18_Witness ==
    /\ ret.op = "index_file"
    /\ ret.again
    /\ ret.val = 4
    /\ CountPoints(points) > 4


(***************************************************************************)
(* The shape of the graph after add_file, under SpecGraph.                 *)
(***************************************************************************)
\* C19: after any sequence of add_file calls no two nodes of the graph have
\* the same uid: the placeholder a call to X created is the node the later
\* definition of X merges onto, so the CALLS edges into X end at the
\* defined node.
C19_UidsUnique ==
    /\ \A n1, n2 \in graph.nodes : n1[2] = n2[2] => n1 = n2
    /\ \A e \in graph.edges :
          (e[3] = "CALLS" /\ <<"Keyword", e[2][2]>> \in graph.nodes) =>
              e[2] = <<"Keyword", e[2][2]>>

\* the rel_paths of the files of the project
KnownFiles == {GraphFiles[i].rel_path : i \in 1..Len(GraphFiles)}

\* C20: an IMPORTS edge f -> t exists only when t is a known file the
\* import expression of f maps to; an import that maps to no known file
\* leaves no IMPORTS edge and no File node of its own.
C20_ImportsOnlyKnownFiles ==
    /\ \A e \in graph.edges : e[3] = "IMPORTS" => e[2][2] \in KnownFiles
    /\ \A n \in graph.nodes : n[1] = "File" => n[2] \in KnownFiles


(***************************************************************************)
(* Unresolved imports, under SpecResolver.                                 *)
(***************************************************************************)
\* where an import expression of a file points: ok is FALSE outside the
\* project root, and otherwise path is the normalized path relative to it
ImportTarget(importing_file, import_path) ==
    LET imp == Strip(Replace(Replace(Chars(import_path), CurdirDollar, <<".">>),
                             CurdirPercent, <<".">>))
        rel == RelativeTo(ResolveDots(JoinPath(
                   Parent(ProjectRoot \o PathParts(Chars(importing_file))), imp)),
                   ProjectRoot)
    IN  [ok |-> rel.ok, path |-> PathStr(rel.parts)]

\* the keys of the file map the import points to
KeysAt(fm, importing_file, import_path) ==
    LET t == ImportTarget(importing_file, import_path)
    IN  {k \in FmKeys(fm) : t.ok /\ Replace(Chars(k), <<"\\">>, <<"/">>) = t.path}

\* the files whose keyword lists a walk from p collects
ScopeFiles(fm, p) == ({p} \cup ReachPlus(fm, p)) \cap FmKeys(fm)

\* C21: an import expression that resolves outside the project root or to
\* no key of the file map resolves to None, and what resolution returns
\* otherwise is a key the normalized path equals; such an import adds no
\* file and no keyword to the walks of effective_keywords and
\* imported_files, which end without error and still walk every other
\* import of the same file.
C21_UnresolvedImportsSkipped ==
    /\ \A i \in 1..Len(file_map) : \A j \in 1..Len(file_map[i].imports) :
          LET f == file_map[i].rel_path
              imp == file_map[i].imports[j]
              r == ResolveImport(file_map, f, imp)
          IN  /\ KeysAt(file_map, f, imp) = {} => r = None
              /\ r # None => r \in KeysAt(file_map, f, imp)
    /\ ret.op = "imported_files" =>
          /\ ~ret.overrun
          /\ Elems(ret.val) \ {ret.arg} \subseteq FmKeys(file_map)
          /\ \A f \in Elems(ret.val) \cap FmKeys(file_map) :
                \A j \in 1..Len(FmGet(file_map, f).imports) :
                    KeysAt(file_map, f, FmGet(file_map, f).imports[j])
                        \subseteq Elems(ret.val)
    /\ ret.op = "effective_keywords" =>
          /\ ~ret.overrun
          /\ Elems(ret.val) =
                UNION {Elems(FmGet(file_map, f).keywords) :
                          f \in ScopeFiles(file_map, ret.arg)}

\* effective_keywords walked a file whose import "zz" names no file and
\* whose next import resolves: the keywords of that next file are returned
C21_Witness ==
    /\ ret.op = "effective_keywords"
    /\ ~ret.cached
    /\ ret.arg = "a"
    /\ "a" \in FmKeys(file_map)
    /\ FmGet(file_map, "a").imports = <<"a", "zz", " b ">>
    /\ KeysAt(file_map, "a", "zz") = {}
    /\ KeysAt(file_map, "a", " b ") = {"b"}
    /\ Elems(FmGet(file_map, "b").keywords) \subseteq Elems(ret.val)
    /\ \E j \in 1..Len(FmGet(file_map, "b").imports) :
           ~ImportTarget("b", FmGet(file_map, "b").imports[j]).ok


(***************************************************************************)
(* codegen.py: _find_best_import and _relative_path.  A path the generator *)
(* builds is kept as its characters.                                       *)
(***************************************************************************)
\* the length of the common prefix of two lists of parts
RECURSIVE CommonPrefix(_, _)
CommonPrefix(xs, ys) ==
    IF xs # <<>> /\ ys # <<>> /\ xs[1] = ys[1]
    THEN 1 + CommonPrefix(Tail(xs), Tail(ys))
    ELSE 0

\* _relative_path(from_file, to_file)
RelativePath(from_file, to_file) ==
    LET from_parts == Parent(PathParts(Chars(from_file)))
        to_parts == PathParts(Chars(to_file))
        common == CommonPrefix(from_parts, to_parts)
        ups == Len(from_parts) - common
        remaining == SubSeq(to_parts, common + 1, Len(to_parts))
        parts == [i \in 1..ups |-> <<".", ".">>] \o remaining
    IN  IF parts # <<>> THEN Join(parts, "/") ELSE Chars(to_file)

\* needed_sources: the non-empty sources of the reused keywords
NeededSources(reused) ==
    {MetaGet(reused[i], "source", "") : i \in 1..Len(reused)} \ {""}

\* a comparison that lets a later file of equal coverage win
AtLeastAsGood(coverage, best_coverage) == coverage >= best_coverage /\ coverage > 0

\* `if coverage > best_coverage`
Better(coverage, best_coverage) == coverage > best_coverage

\* the loop `for rel_path in self._file_map` of _find_best_import
BestFile(fm, needed) ==
    FoldSeq(LAMBDA st, rf :
                LET imported == WalkFiles(fm, rf.rel_path, WalkStart).visited
                    coverage == Cardinality(needed \cap imported)
                IN  IF Better(coverage, st.best_coverage)
                    THEN [best_file |-> rf.rel_path, best_coverage |-> coverage]
                    ELSE st,
            [best_file |-> "", best_coverage |-> 0], fm)

\* the list _find_best_import returns once the loop has selected best_file
ImportChain(target_path, best_file, needed) ==
    IF best_file # ""
    THEN <<RelativePath(target_path, best_file)>>
    ELSE LET sorted == Sorted(needed)
         IN  [i \in 1..Len(sorted) |-> RelativePath(target_path, sorted[i])]

\* DRYCodeGenerator._find_best_import(target_path, reused): the file the
\* loop selected and the list returned
FindBestImportOf(fm, target_path, reused) ==
    LET needed == NeededSources(reused)
        best_file == CHOOSE f \in {BestFile(fm, needed).best_file} : TRUE
    IN  [best_file |-> best_file,
         chain |-> ImportChain(target_path, best_file, needed)]

\* the most reused keywords of one request in the model
MaxReused == 2

\* the sources the metadata of a reused keyword can name: files of the
\* project, a file that is gone, and none
ReusedSources == <<"a", "b", "d/c", "zz", "">>

\* the lists of reused keywords: needed_sources is a set, so the lists are
\* taken in one order of their sources
RECURSIVE ReusedFrom(_, _)
ReusedFrom(len, first) ==
    IF len = 0 THEN {<<>>}
    ELSE {<<>>} \cup
         UNION {{<<[fqn |-> "K", source |-> ReusedSources[i]]>> \o r :
                    r \in ReusedFrom(len - 1, i)} : i \in first..Len(ReusedSources)}

ReusedLists == ReusedFrom(MaxReused, 1)

\* the paths a suite is generated at
TargetPaths == {"x", "d/x"}

\* the file maps the generator runs over: the project with one file gone
CodegenMaps == {fm \in FileMaps : Len(fm) = Len(FileVersions) - 1}

InitCodegen ==
    /\ graph = EmptyGraph
    /\ lastAdded = 0
    /\ file_map \in CodegenMaps
    /\ scope_cache = <<>>
    /\ heap = <<>>
    /\ points = <<>>
    /\ threshold = 0
    /\ engine = NoEngine
    /\ inflight = NoCalls
    /\ ret = NoCall

\* DRYCodeGenerator._find_best_import(target_path, reused)
FindBestImport(target_path, reused) ==
    /\ \E found \in {FindBestImportOf(file_map, target_path, reused)} :
           ret' = [op |-> "find_best_import", target_path |-> target_path,
                   needed |-> NeededSources(reused),
                   best_file |-> found.best_file, val |-> found.chain]
    /\ UNCHANGED <<graph, lastAdded, file_map, scope_cache, heap, points, threshold, engine, inflight>>

NextCodegen ==
    \/ \E target_path \in TargetPaths, reused \in ReusedLists :
           FindBestImport(target_path, reused)
    \/ \E p \in QueryPaths : ImportedFiles(p)

SpecCodegen == InitCodegen /\ [][NextCodegen]_vars

\* the number of needed sources in the import closure of file f
Coverage(fm, f, needed) == Cardinality(needed \cap ({f} \cup ReachPlus(fm, f)))

\* the first file in file-map order that covers the most needed sources
FirstBest(fm, needed) ==
    fm[CHOOSE i \in 1..Len(fm) :
           /\ \A j \in 1..Len(fm) :
                  Coverage(fm, fm[j].rel_path, needed) <= Coverage(fm, fm[i].rel_path, needed)
           /\ \A j \in 1..(i - 1) :
                  Coverage(fm, fm[j].rel_path, needed) < Coverage(fm, fm[i].rel_path, needed)
      ].rel_path

\* C22: _find_best_import selects the file of the file map whose
\* imported_files closure holds the most needed sources, the first such
\* file in file-map order on ties, and returns the path to it; only when no
\* file covers a needed source does it return one import per needed source,
\* in sorted order.
C22_BestImportCoversMost ==
    ret.op = "find_best_import" =>
        IF \E i \in 1..Len(file_map) :
               Coverage(file_map, file_map[i].rel_path, ret.needed) > 0
        THEN /\ ret.best_file = FirstBest(file_map, ret.needed)
             /\ ret.val = <<RelativePath(ret.target_path, ret.best_file)>>
        ELSE /\ ret.best_file = ""
             /\ Len(ret.val) = Cardinality(ret.needed)
             /\ \A i \in 1..Len(ret.val) :
                   ret.val[i] = RelativePath(ret.target_path, Sorted(ret.needed)[i])

\* two files cover the same, largest number of needed sources and the one
\* that comes first in the file map was selected
C22_Witness ==
    /\ ret.op = "find_best_import"
    /\ Cardinality(ret.needed) = 2
    /\ ret.best_file # ""
    /\ \E i, j \in 1..Len(file_map) :
          /\ i < j
          /\ file_map[i].rel_path = ret.best_file
          /\ Coverage(file_map, file_map[j].rel_path, ret.needed)
                 = Coverage(file_map, ret.best_file, ret.needed)
    /\ \E j \in 1..Len(file_map) :
          Coverage(file_map, file_map[j].rel_path, ret.needed)
              < Coverage(file_map, ret.best_file, ret.needed)


\* the keys of the file map an import written in the suite at target_path
\* points to
PointedAt(fm, target_path, import_chars) ==
    LET rel == RelativeTo(ResolveDots(JoinPath(
                   Parent(ProjectRoot \o PathParts(Chars(target_path))), import_chars)),
                   ProjectRoot)
    IN  {k \in FmKeys(fm) : rel.ok /\ Chars(k) = PathStr(rel.parts)}

\* the files the suite at target_path has access to through its imports
Accessible(fm, target_path, chain) ==
    UNION {{k} \cup ReachPlus(fm, k) :
              k \in UNION {PointedAt(fm, target_path, chain[i]) : i \in 1..Len(chain)}}

\* C28: the imports _find_best_import returns give access to all reused
\* keywords: every needed source that is a key of the file map is in the
\* import closure of a file the returned imports point to.
C28_ImportsCoverNeeded ==
    ret.op = "find_best_import" =>
        ret.needed \cap FmKeys(file_map)
            \subseteq Accessible(file_map, ret.target_path, ret.val)


(***************************************************************************)
(* The order of effective_keywords, under SpecResolver.                    *)
(***************************************************************************)
\* the keys the imports of file f resolve to, in declaration order
ImportKeys(fm, f) ==
    LET imports == FmGet(fm, f).imports
        keys == [j \in 1..Len(imports) |-> ResolveImport(fm, f, imports[j])]
    IN  SelectSeq(keys, LAMBDA k : k # None)

\* depth-first pre-order from a stack of pending files: the first pending
\* file is entered unless it was entered before, and its imports are
\* pending before everything that was pending already
RECURSIVE PreOrder(_, _, _)
PreOrder(fm, pending, entered) ==
    IF pending = <<>> THEN <<>>
    ELSE IF pending[1] \in entered \/ pending[1] \notin FmKeys(fm)
         THEN PreOrder(fm, Tail(pending), entered)
    ELSE <<pending[1]>> \o PreOrder(fm, ImportKeys(fm, pending[1]) \o Tail(pending),
                                    entered \cup {pending[1]})

\* the keyword lists of the files, one after the other
RECURSIVE ConcatKeywords(_, _)
ConcatKeywords(fm, files) ==
    IF files = <<>> THEN <<>>
    ELSE FmGet(fm, files[1]).keywords \o ConcatKeywords(fm, Tail(files))

\* C23: effective_keywords(p) is the concatenation of the keyword lists of
\* the files reached from p in depth-first pre-order, imports taken in
\* declaration order: the keywords of p first, the list of every reached
\* file exactly once, and keywords with the FQN of a keyword of another
\* file kept.
C23_PreOrderConcatenation ==
    ret.op = "effective_keywords" =>
        LET order == PreOrder(file_map, <<ret.arg>>, {})
        IN  /\ ret.val = ConcatKeywords(file_map, order)
            /\ \A i, j \in 1..Len(order) : order[i] = order[j] => i = j
            /\ Elems(order) = ScopeFiles(file_map, ret.arg)

\* a walk over three files or more that returned two keywords with one FQN,
\* in an order that is not the file-map order of their files
C23_Witness ==
    /\ ret.op = "effective_keywords"
    /\ ~ret.cached
    /\ Len(PreOrder(file_map, <<ret.arg>>, {})) >= 3
    /\ \E i, j \in 1..Len(ret.val) : i < j /\ ret.val[i].fqn = ret.val[j].fqn
    /\ \E i, j \in 1..Len(file_map) :
          /\ i < j
          /\ \E m, n \in 1..Len(PreOrder(file_map, <<ret.arg>>, {})) :
                /\ m < n
                /\ PreOrder(file_map, <<ret.arg>>, {})[m] = file_map[j].rel_path
                /\ PreOrder(file_map, <<ret.arg>>, {})[n] = file_map[i].rel_path


(***************************************************************************)
(* The selection order of farthest_point_sampling, under SpecStore.        *)
(***************************************************************************)
\* the place of a test case in the enumeration of the test-case points
EnumIndex(fqn) ==
    CHOOSE i \in 1..Len(points) :
        points[i].payload.type = "test_case" /\ points[i].payload.fqn = fqn

\* the test cases that are not among val[1..j-1]
Unselected(val, j) ==
    {f \in FqnsOfType("test_case") : \A i \in 1..(j - 1) : val[i].fqn # f}

\* C24: farthest_point_sampling(n), n >= 1, starts from the first test case
\* in enumeration order, and each of the k - 1 later candidates, k =
\* min(n, |C|), was unselected, had a minimum distance to the candidates
\* before it that no unselected test case exceeded, and was the first in
\* enumeration order of the unselected test cases with that distance.
C24_FarthestFirstSelection ==
    (ret.op = "smoke" /\ ret.arg >= 1 /\ PointsOfType("test_case") # {}) =>
        /\ Len(ret.val) = Min(ret.arg, Cardinality(PointsOfType("test_case")))
        /\ \A f \in FqnsOfType("test_case") : EnumIndex(ret.val[1].fqn) <= EnumIndex(f)
        /\ \A j \in 2..Len(ret.val) :
              /\ ret.val[j].fqn \in Unselected(ret.val, j)
              /\ \A u \in Unselected(ret.val, j) :
                    /\ ~DistLess(RunningMin(ret.val, ret.val[j].fqn, j),
                                 RunningMin(ret.val, u, j))
                    /\ EnumIndex(u) < EnumIndex(ret.val[j].fqn)
                         => DistLess(RunningMin(ret.val, u, j),
                                     RunningMin(ret.val, ret.val[j].fqn, j))

\* a sampling of three test cases whose second candidate was chosen among
\* two unselected test cases at the same distance from the seed
C24_Witness ==
    /\ ret.op = "smoke"
    /\ ret.arg >= 3
    /\ Len(ret.val) = 3
    /\ DistEq(RunningMin(ret.val, ret.val[2].fqn, 2),
              RunningMin(ret.val, ret.val[3].fqn, 2))
    /\ EnumIndex(ret.val[2].fqn) < EnumIndex(ret.val[3].fqn)


(***************************************************************************)
(* Attributes across the add_file calls of one run, under SpecGraph.  A    *)
(* run hands every file to add_file once.                                  *)
(***************************************************************************)
\* the nodes whose attributes an add_file call has written: a node that a
\* MERGE alone created has its uid and nothing else
WrittenNodes(g) == {n \in g.nodes : "node_type" \in DOMAIN g.props[n]}

\* the files added so far
AddedFiles(g) == {n[2] : n \in {m \in WrittenNodes(g) : m[1] = "File"}}

\* C25: an add_file call for a file the run has not added before changes no
\* attribute of a node whose attributes an earlier add_file call has written.
C25_AttributesWrittenOnce ==
    [][(ret'.op = "add_file" /\ graph' # graph
            /\ GraphFiles[ret'.arg].rel_path \notin AddedFiles(graph)) =>
           \A n \in WrittenNodes(graph) : graph'.props[n] = graph.props[n]
      ]_vars


(***************************************************************************)
(* SpecThreads: the threads of Threads call effective_keywords on one      *)
(* resolver over one file map.  A call is at the cache check (line 33),    *)
(* the walk (36-38), the store (39) or the return (34, 40); visited and    *)
(* result are locals of the call, so the walk is one step.                 *)
(***************************************************************************)
\* a list that holds what an earlier call collected for the path
SharedAccumulator(h, rel_path) ==
    IF \E o \in DOMAIN h : o[1] = rel_path
    THEN h[CHOOSE o \in DOMAIN h : o[1] = rel_path]
    ELSE <<>>

\* `result: list[KeywordDef] = []`
EmptyResult(h, rel_path) == <<>>

\* the paths the threads ask about
ThreadPaths == {"a", "b"}

InitThreads ==
    /\ graph = EmptyGraph
    /\ lastAdded = 0
    /\ file_map \in CodegenMaps
    /\ scope_cache = <<>>
    /\ heap = <<>>
    /\ points = <<>>
    /\ threshold = 0
    /\ engine = NoEngine
    /\ inflight = NoCalls
    /\ ret = NoCall

\* a thread enters effective_keywords(rel_path)
CallEffectiveKeywords(t, p) ==
    /\ inflight[t].pc \in {"idle", "done"}
    /\ inflight' = [inflight EXCEPT ![t] = [Idle EXCEPT !.pc = "check", !.rel_path = p]]
    /\ UNCHANGED <<graph, lastAdded, file_map, scope_cache, heap, points, threshold,
                   engine, ret>>

\* `if rel_path in self._scope_cache`
CacheCheck(t) ==
    /\ inflight[t].pc = "check"
    /\ inflight' = [inflight EXCEPT ![t] =
          IF CacheHit(scope_cache, inflight[t].rel_path)
          THEN [@ EXCEPT !.pc = "return", !.hit = TRUE,
                         !.result = scope_cache[inflight[t].rel_path]]
          ELSE [@ EXCEPT !.pc = "walk"]]
    /\ UNCHANGED <<graph, lastAdded, file_map, scope_cache, heap, points, threshold,
                   engine, ret>>

\* `visited = set(); result = []; self._walk(rel_path, visited, result)`
WalkCall(t) ==
    /\ inflight[t].pc = "walk"
    /\ LET p == inflight[t].rel_path
           st == Walk(file_map, p, [WalkStart EXCEPT !.acc = EmptyResult(heap, p)])
           result == <<p, Allocated(heap, p) + 1>>
       IN  /\ Allocated(heap, p) < MaxAlloc
           /\ heap' = (result :> st.acc) @@ heap
           /\ inflight' = [inflight EXCEPT ![t] = [@ EXCEPT !.pc = "store",
                                                            !.result = result]]
    /\ UNCHANGED <<graph, lastAdded, file_map, scope_cache, points, threshold, engine, ret>>

\* `self._scope_cache[rel_path] = result`
StoreResult(t) ==
    /\ inflight[t].pc = "store"
    /\ scope_cache' = (inflight[t].rel_path :> inflight[t].result) @@ scope_cache
    /\ inflight' = [inflight EXCEPT ![t] = [@ EXCEPT !.pc = "return"]]
    /\ UNCHANGED <<graph, lastAdded, file_map, heap, points, threshold, engine, ret>>

\* `return self._scope_cache[rel_path]`, `return result`
ReturnResult(t) ==
    /\ inflight[t].pc = "return"
    /\ inflight' = [inflight EXCEPT ![t] = [@ EXCEPT !.pc = "done",
                                                     !.val = heap[inflight[t].result]]]
    /\ ret' = [op |-> "effective_keywords", arg |-> inflight[t].rel_path,
               cached |-> inflight[t].hit, obj |-> inflight[t].result,
               val |-> heap[inflight[t].result], overrun |-> FALSE]
    /\ UNCHANGED <<graph, lastAdded, file_map, scope_cache, heap, points, threshold, engine>>

NextThreads ==
    \/ \E t \in Threads, p \in ThreadPaths : CallEffectiveKeywords(t, p)
    \/ \E t \in Threads : CacheCheck(t)
    \/ \E t \in Threads : WalkCall(t)
    \/ \E t \in Threads : StoreResult(t)
    \/ \E t \in Threads : ReturnResult(t)

SpecThreads == InitThreads /\ [][NextThreads]_vars

\* two calls for one path that both found the cache empty: each was past
\* its check before the other stored, as a store makes every later check hit
Raced(t, u) ==
    /\ t # u
    /\ inflight[t].rel_path = inflight[u].rel_path
    /\ inflight[t].pc \in {"walk", "store", "return", "done"}
    /\ inflight[u].pc \in {"walk", "store", "return", "done"}
    /\ ~inflight[t].hit
    /\ ~inflight[u].hit

\* C26: of two effective_keywords(p) calls on one resolver that both passed
\* the cache check before either stored, each walk collects the same
\* content, the two calls return sequences with that content, and once both
\* have returned the cache entry for p holds a sequence with that content.
C26_RacingCallsAgree ==
    \A t, u \in Threads :
        Raced(t, u) =>
            /\ ({inflight[t].pc, inflight[u].pc} \subseteq {"store", "return", "done"}
                  => heap[inflight[t].result] = heap[inflight[u].result])
            /\ (inflight[t].pc = "done" /\ inflight[u].pc = "done") =>
                  /\ inflight[t].val = inflight[u].val
                  /\ CacheHit(scope_cache, inflight[t].rel_path)
                  /\ heap[scope_cache[inflight[t].rel_path]] = inflight[t].val

\* both racing calls returned a scope of several files, as two list objects
C26_Witness ==
    \E t, u \in Threads :
        /\ Raced(t, u)
        /\ inflight[t].pc = "done"
        /\ inflight[u].pc = "done"
        /\ inflight[t].result # inflight[u].result
        /\ Len(inflight[t].val) >= 3


(***************************************************************************)
(* SpecCoverage: ingest() over crawls of an API file, two end-to-end       *)
(* suites and an atomic suite, and graphql_coverage().                     *)
(***************************************************************************)
CoverageFiles == <<
    \* the API resource: its keyword Create Mutation has the FQN b.Create Mutation
    GraphFiles[2],
    \* an end-to-end suite whose test case calls Create Mutation by its name
    GraphFiles[3],
    \* an end-to-end suite whose test case calls a keyword of the suite by its
    \* FQN, which calls the mutation by its FQN
    ResourceFile("SIT/d.robot", "E2E_TESTS", "web", "",
        <<"../res/api/b.resource">>,
        <<KeywordDef("K1", "d.K1", "", <<>>, <<"b.Create Mutation">>, 3)>>,
        <<TestCaseDef("T1", "d.T1", "", <<>>, <<"d.K1">>, 9)>>,
        <<>>, <<>>),
    \* an atomic suite: its test case calls K1, which calls a.K2
    GraphFiles[1]
>>

RECURSIVE CoverageCrawlsFrom(_)
CoverageCrawlsFrom(i) ==
    IF i > Len(CoverageFiles) THEN {<<>>}
    ELSE LET rest == CoverageCrawlsFrom(i + 1)
         IN  rest \cup {<<CoverageFiles[i]>> \o c : c \in rest}

CoverageCrawls == CoverageCrawlsFrom(1)

NextCoverage ==
    \/ \E crawl \in CoverageCrawls : Ingest(crawl, NoFailure)
    \/ GraphqlCoverage

SpecCoverage == InitEngine /\ [][NextCoverage]_vars

\* the keywords of the file map a called name refers to: by name or by FQN
KeywordsCalled(fm, called) ==
    {kw \in UNION {Elems(fm[i].keywords) : i \in 1..Len(fm)} :
        kw.name = called \/ kw.fqn = called}

\* the keywords that S and the keywords called from S, directly or through
\* other keywords, are
RECURSIVE CalledClosure(_, _)
CalledClosure(fm, S) ==
    LET T == S \cup UNION {KeywordsCalled(fm, called) :
                              called \in UNION {Elems(kw.called_keywords) : kw \in S}}
    IN  IF T = S THEN S ELSE CalledClosure(fm, T)

\* the test cases of the E2E files
SitTestCases(fm) ==
    UNION {Elems(fm[i].test_cases) : i \in {k \in 1..Len(fm) : fm[k].role = "E2E_TESTS"}}

\* the FQNs of the keywords an E2E test case calls, directly or transitively
CoveredBySit(fm) ==
    {kw.fqn : kw \in CalledClosure(fm,
        UNION {KeywordsCalled(fm, called) :
                  called \in UNION {Elems(tc.called_keywords) : tc \in SitTestCases(fm)}})}

\* C27: after ingestion graphql_mutations_without_sit() lists a mutation
\* keyword of an API file if and only if no test case of an E2E file calls
\* it, directly or through other keywords; in particular a mutation keyword
\* that an E2E test case calls by its name is not listed.
C27_UncoveredIffNoSitCaller ==
    (ret.op = "graphql_coverage" /\ ret.raised = None) =>
        {ret.val[i].fqn : i \in 1..Len(ret.val)}
            = {fqn \in Elems(ApiKeywords(file_map)) : fqn \notin CoveredBySit(file_map)}


(***************************************************************************)
(* The file map after an ingest(), under SpecEngine.                       *)
(***************************************************************************)
\* the rel_paths of the files of a crawl that parse_file returned under a plan
ParsedPaths(crawl, plan) ==
    {crawl[i].rel_path : i \in {k \in 1..Len(crawl) : plan # [step |-> "parse", at |-> k]}}

\* C29: after an ingest() that returned, a first one or a later one over a
\* changed set of files, the keys of file_map are the files that were
\* crawled and parsed in that run, files_crawled is their number, and the
\* resolver of the queries has an empty scope cache.
C29_FileMapIsTheRun ==
    (ret.op = "ingest" /\ ret.raised = None) =>
        /\ FmKeys(file_map) = ParsedPaths(ret.crawl, ret.plan)
        /\ ret.val.files_crawled = Cardinality(ParsedPaths(ret.crawl, ret.plan))
        /\ scope_cache = <<>>
        /\ engine.resolver


(***************************************************************************)
(* The two walks of the resolver side by side, under SpecResolver.         *)
(***************************************************************************)
\* the files whose keyword lists the walk of effective_keywords(p) appends
KeywordFiles(fm, p) == Walk(fm, p, WalkStart).visited \cap FmKeys(fm)

\* the files of imported_files(p) that are keys of the file map
ImportedKeys(fm, p) == Elems(Sorted(WalkFiles(fm, p, WalkStart).visited)) \cap FmKeys(fm)

RECURSIVE SumLen(_, _)
SumLen(fm, files) ==
    IF files = {} THEN 0
    ELSE LET f == CHOOSE x \in files : TRUE
         IN  Len(FmGet(fm, f).keywords) + SumLen(fm, files \ {f})

\* C30: for the path of a call and the file map of the resolver, the files
\* whose keyword lists make up effective_keywords(p) are the files of
\* imported_files(p) that are keys of the file map: what either call
\* returns is made of, or lists, exactly the files the other walk reaches.
C30_WalksAgree ==
    /\ ret.op = "imported_files" =>
          Elems(ret.val) \cap FmKeys(file_map) = KeywordFiles(file_map, ret.arg)
    /\ ret.op = "effective_keywords" =>
          /\ KeywordFiles(file_map, ret.arg) = ImportedKeys(file_map, ret.arg)
          /\ Elems(ret.val) = UNION {Elems(FmGet(file_map, f).keywords) :
                                        f \in ImportedKeys(file_map, ret.arg)}
          /\ Len(ret.val) = SumLen(file_map, ImportedKeys(file_map, ret.arg))

\* imported_files listed three keys of the file map or more, reached
\* through imports of imports
C30_Witness ==
    /\ ret.op = "imported_files"
    /\ Len(ret.val) >= 3
    /\ Elems(ret.val) \subseteq FmKeys(file_map)
    /\ \E f \in Elems(ret.val) \ {ret.arg} :
          \A j \in 1..Len(FmGet(file_map, ret.arg).imports) :
              ResolveImport(file_map, ret.arg, FmGet(file_map, ret.arg).imports[j]) # f

====
